---- MODULE Spec2Model ----
(***************************************************************************)
(* HexaConquest (MapGo): the territory and resource economy of the         *)
(* useGameState hook over its IndexedDB store.                             *)
(*                                                                         *)
(* The store (dbPlayer, dbHexagons, dbZones) and the React state of the    *)
(* hook (playerState, resourceZones, currentHexagon) are separate          *)
(* variables.  Every asynchronous command is a process in a slot of ops:   *)
(* it captures the playerState / resourceZones of the render it was        *)
(* created in (its closure) when it starts, and then runs one step per     *)
(* awaited store operation: the step performs the store operation and the  *)
(* synchronous code that follows it up to the next await.                  *)
(*                                                                         *)
(* Time is counted in units of 1/TicksPerHour hour.                        *)
(***************************************************************************)
EXTENDS Integers, FiniteSets, Sequences, TLC

\* ------------------------------------------------------------------ bounds
\* Last instant of the clock (in time units), and the commands, ticks and
\* refreshes started in one run: of the whole engine, ...
MaxTime == 2
MaxStarted == 2
\* ... of the conquest commands, ...
MaxConquestStarted == 3
\* ... and of the zone economy.
MaxZoneTime == 3
MaxZoneStarted == 3
\* The greatest amount of a zone a collection draws from, and the collections
\* started in such a run.
MaxDrawAmount == 100
MaxDrawStarted == 1
MaxBaseTime == 2
MaxBaseStarted == 2
MaxPassTime == 3
MaxPassStarted == 2
MaxCommandStarted == 2
MaxTicksRun == 2
\* The entries the position history starts with, the positions the watch
\* reports in one run and the milliseconds that pass in it.
MaxStored == 102
MaxReports == 2
MaxWatchTime == 1
\* The position refreshes and home commands started in one run.
MaxHomeStarted == 3
\* The greatest finite coordinate handed to the grid, and the greatest
\* maxRadius and maxHexagons of a configuration.
MaxCoordinate == 2
MaxRadius == 1
MaxHexagons == 8
\* The zones a caller asks generateResourceZones for, and the greatest amount
\* of a resource in an inventory or a cost handed to hasEnoughResources.
MaxZonesAsked == 2
MaxResourceAmount == 2

\* Time units per hour: one unit is 30 minutes.
TicksPerHour == 2

\* The window of grid cells the model follows; the player starts on cell 1.
Cells == {"c1", "c2"}
StartCell == "c1"
\* The slots of commands in flight at the same time.
Slots == {1, 2}

ResourceTypes == {"wood", "iron", "stone"}

\* ------------------------------------------------------------- null values
NoCell == "none"
NoRes == [wood |-> 0, iron |-> 0, stone |-> 0]
\* playerState === null, and no record under the player's key.
NoPlayer == [id |-> "none", resources |-> NoRes, score |-> 0,
             baseHexagon |-> NoCell, position |-> NoCell]
\* No record of the hexagons store (stored = FALSE); baseLevel 0 is "no base".
NoHex == [stored |-> FALSE, conquered |-> FALSE, conqueredBy |-> "none",
          conqueredAt |-> -1, baseLevel |-> 0]
\* No record of the resourceZones store, no entry of the zone list.
NoZone == [resourceType |-> "none", amount |-> 0, regenerationRate |-> 0,
           lastRegeneration |-> -1]

\* ----------------------------------------------------------------- economy
Res(w, i, s) == [wood |-> w, iron |-> i, stone |-> s]

conquestCost == Res(10, 5, 8)
\* Variant: a cheaper base.
baseCostCheaper == Res(30, 15, 20)

baseCost == Res(30, 20, 25)
upgradeCost == Res(50, 30, 40)
\* Variant: a maintenance that takes no iron.
maintenanceCostNoIron == Res(2, 0, 2)

maintenanceCost == Res(2, 1, 2)
\* Variant: the production net of the maintenance.
baseProductionNet == Res(3, 2, 2)

baseProduction == Res(5, 3, 4)
NewPlayerResources == Res(50, 25, 40)

\* Variant: only the wood is compared.
hasEnoughResourcesWoodOnly(playerResources, requiredResources) ==
    playerResources.wood >= requiredResources.wood

\* Variant: an inventory equal to the cost is not enough.
hasEnoughResourcesStrict(playerResources, requiredResources) ==
    /\ playerResources.wood > requiredResources.wood
    /\ playerResources.iron > requiredResources.iron
    /\ playerResources.stone > requiredResources.stone

hasEnoughResources(playerResources, requiredResources) ==
    /\ playerResources.wood >= requiredResources.wood
    /\ playerResources.iron >= requiredResources.iron
    /\ playerResources.stone >= requiredResources.stone

\* Variant: the wood and the iron of the cost are taken from each other's counter.
subtractResourcesSwapped(playerResources, cost) ==
    [wood |-> playerResources.wood - cost.iron,
     iron |-> playerResources.iron - cost.wood,
     stone |-> playerResources.stone - cost.stone]

subtractResources(playerResources, cost) ==
    [wood |-> playerResources.wood - cost.wood,
     iron |-> playerResources.iron - cost.iron,
     stone |-> playerResources.stone - cost.stone]

addResources(playerResources, resources) ==
    [wood |-> playerResources.wood + resources.wood,
     iron |-> playerResources.iron + resources.iron,
     stone |-> playerResources.stone + resources.stone]

\* { [resourceType]: amount }: a cost with the one field present.
OnlyOf(type, amount) == [NoRes EXCEPT ![type] = amount]

getResourceBaseAmount(resourceType) ==
    CASE resourceType = "wood" -> 50
      [] resourceType = "iron" -> 30
      [] resourceType = "stone" -> 40
      [] OTHER -> 30

getResourceRegenRate(resourceType) ==
    CASE resourceType = "wood" -> 10
      [] resourceType = "iron" -> 5
      [] resourceType = "stone" -> 8
      [] OTHER -> 5

\* ------------------------------------------------------------ resource zones
Zone(type, amount, rate, last) ==
    [resourceType |-> type, amount |-> amount, regenerationRate |-> rate,
     lastRegeneration |-> last]

NoZones == [c \in Cells |-> NoZone]

\* Math.floor(Math.random() * n) + lo takes every value of lo .. lo + n - 1;
\* the model draws the least and the greatest.
Ends(lo, n) == {lo, lo + n - 1}

\* generateResourceZones(hexagons, count) called at time t: every list it can
\* return, as a map from the cell to its zone.  min(count, |hexagons|) distinct
\* cells, a random type each, amount = base + floor(random * base).
generateResourceZones(hexagons, count, t) ==
    LET k == IF count < Cardinality(hexagons) THEN count ELSE Cardinality(hexagons)
        fresh == UNION {{Zone(type, amount, getResourceRegenRate(type), t) :
                             amount \in Ends(getResourceBaseAmount(type),
                                             getResourceBaseAmount(type))} :
                        type \in ResourceTypes}
    IN  UNION {{z \in [Cells -> fresh \cup {NoZone}] :
                    \A c \in Cells : (z[c] # NoZone) <=> (c \in S)} :
               S \in {T \in SUBSET hexagons : Cardinality(T) = k}}

\* The cells of the window in the two slices generateInitialResourceZones takes
\* from the disks around the player ("out": a cell outside the window, whose
\* zone the model does not follow).
NearbyResourceHexagons == <<"out", "c2", "out">>
DistantResourceHexagons == <<"out">>
NearTypes == <<"wood", "iron", "stone">>

\* generateInitialResourceZones(playerPosition) called at time t: one zone of
\* each type on the first three nearby cells (amount 30..79, rate 3..7), then a
\* zone of a random type on each distant cell (amount 20..59, rate 2..5).
generateInitialResourceZones(t) ==
    LET near(i) == {Zone(NearTypes[i], amount, rate, t) :
                        amount \in Ends(30, 50), rate \in {7}}
        distant == {Zone(type, amount, rate, t) :
                        type \in ResourceTypes, amount \in Ends(20, 40), rate \in {5}}
        nearIdx(c) == {i \in 1..3 : NearbyResourceHexagons[i] = c}
        isDistant(c) == \E i \in 1..Len(DistantResourceHexagons) :
                            i <= 12 /\ DistantResourceHexagons[i] = c
    IN  {z \in [Cells -> UNION {near(i) : i \in 1..3} \cup distant \cup {NoZone}] :
            \A c \in Cells :
                IF nearIdx(c) # {} THEN \E i \in nearIdx(c) : z[c] \in near(i)
                ELSE IF isDistant(c) THEN z[c] \in distant
                ELSE z[c] = NoZone}

\* ------------------------------------------------------------------- state
VARIABLES
    now,             \* the clock (Date.now()), in time units
    dbPlayer,        \* store playerState: the record of the player, or NoPlayer
    dbHexagons,      \* store hexagons: cell -> record, or NoHex
    dbZones,         \* store resourceZones: cell -> zone, or NoZone
    playerState,     \* React state playerState (NoPlayer: null)
    resourceZones,   \* React state resourceZones: cell -> zone, or NoZone
    currentHexagon,  \* React state currentHexagon (NoCell: null)
    ops,             \* slot -> the command in flight in it
    budget,          \* commands the run may still start
    horizon,         \* the last instant of the clock in the run
    storeFails,      \* whether store operations may fail in the run
    everyDraw,       \* whether Math.random() takes every value in the run
    last,            \* the command that completed last, and its result
    maintenanceInterval,     \* time left until the maintenance interval fires
    positionUpdateInterval,  \* time left until the position interval fires
    sourceActive,    \* whether getCurrentPosition resolves
    ticksRun,        \* how many times the maintenance callback has run
    mounted,         \* whether the component that uses the hook is mounted
    watchId,         \* the ref watchId.current (NoWatch: null)
    watches,         \* the watches registered at the Position Source
    starting,        \* whether an initializeGame that starts the watch is awaiting
    playerPositions, \* store playerPositions: the keys (timestamps) of its entries
    watchTime,       \* Date.now() of the watch, in milliseconds
    reports,         \* the positions the watch reported, in order
    lastCleanup,     \* the last call of cleanupOldPositions
    position,        \* React state position: a coordinate, or NoPlace (null)
    homeBase,        \* React state homeBase (NoPlace: null)
    isAwayFromHome,  \* React state isAwayFromHome
    dbHomeBase,      \* store gameSettings, key homeBase_<playerId>
    homeOps,         \* slot -> the refresh or home command in flight in it
    homeBudget,      \* refreshes and home commands the run may still start
    lastCheck,       \* the last call of isPlayerFarFromHome
    lastHome,        \* the home command that completed last
    gridInput,       \* the arguments of a call of a grid function
    gridResult       \* the grid function called with them, and what it returned

\* The two intervals of the hook and what drives them.
\* The watch of the Position Source and the life of the component.
watchVars == <<mounted, watchId, watches, starting>>

clockVars == <<maintenanceInterval, positionUpdateInterval, sourceActive, ticksRun,
               watchVars>>

\* The position history and the watch that feeds it.
historyVars == <<playerPositions, watchTime, reports, lastCleanup>>

\* The home tracker: the coordinate of the player, the home and the flag.
homeVars == <<position, homeBase, isAwayFromHome, dbHomeBase, homeOps, homeBudget,
              lastCheck, lastHome>>

\* The calls of the grid functions.
gridVars == <<gridInput, gridResult>>

\* The state the commands of the game leave alone.
otherVars == <<clockVars, historyVars, gridVars, homeVars, gridVars>>

\* The state of the game: the stores, the React state and the commands in flight.
gameVars == <<now, dbPlayer, dbHexagons, dbZones, playerState, resourceZones,
              currentHexagon, ops, budget, horizon, storeFails, everyDraw, last>>

vars == <<gameVars, otherVars>>

PlayerId == "default-player"

\* A command in flight: its kind and position, the playerState (ps) and the
\* zone list (zs) of its closure, its argument (hex) and its locals (granted:
\* what the regeneration pass adds to each zone of its list).
Idle == [kind |-> "idle", pc |-> "idle", ps |-> NoPlayer, zs |-> NoZones,
         hex |-> NoCell, zone |-> NoZone, res |-> NoRes, pending |-> {},
         failed |-> FALSE, granted |-> [c \in Cells |-> 0],
         db |-> [player |-> NoPlayer, hexagons |-> [c \in Cells |-> NoHex],
                 zones |-> NoZones]]

NoLast == [kind |-> "none", ok |-> FALSE, hex |-> NoCell, why |-> "none"]

\* The store of a first session: empty.
FreshStore ==
    /\ dbPlayer = NoPlayer
    /\ dbHexagons = [c \in Cells |-> NoHex]
    /\ dbZones = NoZones

\* The store an earlier session left behind: the player conquered the start cell
\* and established the base on it: the inventory of a new player less the cost
\* of the base, the score of one conquest.
EarlierPlayer ==
    [id |-> PlayerId, resources |-> Res(20, 5, 15), score |-> 10,
     baseHexagon |-> StartCell, position |-> StartCell]

ReturningStore ==
    /\ dbPlayer = EarlierPlayer
    /\ dbHexagons = [c \in Cells |->
           IF c = StartCell
           THEN [stored |-> TRUE, conquered |-> TRUE, conqueredBy |-> PlayerId,
                 conqueredAt |-> 0, baseLevel |-> 0]
           ELSE NoHex]
    /\ dbZones \in generateInitialResourceZones(0)

\* The store an earlier session left behind after four collections on the iron
\* zone next to the start cell: the zone is down to 9, the iron is up by 21.
DepletedStore ==
    /\ dbPlayer = [id |-> PlayerId, resources |-> Res(50, 46, 40), score |-> 0,
                   baseHexagon |-> NoCell, position |-> StartCell]
    /\ dbHexagons = [c \in Cells |-> NoHex]
    /\ dbZones = [c \in Cells |->
           IF NearbyResourceHexagons[2] = c THEN Zone(NearTypes[2], 9, 7, 0) ELSE NoZone]

\* A store whose zone next to the start cell holds any amount a collection can
\* find in it.
AnyAmountStore ==
    /\ dbPlayer = [id |-> PlayerId, resources |-> NewPlayerResources, score |-> 0,
                   baseHexagon |-> NoCell, position |-> StartCell]
    /\ dbHexagons = [c \in Cells |-> NoHex]
    /\ \E amount \in 1..MaxDrawAmount :
           dbZones = [c \in Cells |->
               IF NearbyResourceHexagons[2] = c THEN Zone(NearTypes[2], amount, 7, 0)
               ELSE NoZone]

\* The store an earlier session left behind after it conquered the start cell
\* and established the base on it while a collection on the iron zone next to
\* the start cell was in flight: the collection wrote the inventory of its
\* closure plus the 8 iron it took, after the debit of the base.
WealthyStore ==
    /\ dbPlayer = [id |-> PlayerId, resources |-> Res(50, 33, 40), score |-> 10,
                   baseHexagon |-> StartCell, position |-> StartCell]
    /\ dbHexagons = [c \in Cells |->
           IF c = StartCell
           THEN [stored |-> TRUE, conquered |-> TRUE, conqueredBy |-> PlayerId,
                 conqueredAt |-> 0, baseLevel |-> 0]
           ELSE NoHex]
    /\ dbZones = [c \in Cells |->
           IF NearbyResourceHexagons[2] = c THEN Zone(NearTypes[2], 22, 7, 0) ELSE NoZone]

\* The store an earlier session left behind after it conquered both cells, one
\* after the other, and established no base.
TwoCellStore ==
    /\ dbPlayer = [id |-> PlayerId, resources |-> NewPlayerResources, score |-> 20,
                   baseHexagon |-> NoCell, position |-> NearbyResourceHexagons[2]]
    /\ dbHexagons = [c \in Cells |->
           [stored |-> TRUE, conquered |-> TRUE, conqueredBy |-> PlayerId,
            conqueredAt |-> 0, baseLevel |-> 0]]
    /\ dbZones = [c \in Cells |->
           IF NearbyResourceHexagons[2] = c THEN Zone(NearTypes[2], 30, 7, 0) ELSE NoZone]

\* The store an earlier session left behind when the returning player's
\* conquest failed at conquerHexagon: the cost of the conquest is debited, the
\* base is on the start cell, and the inventory no longer covers the
\* maintenance.
StarvedStore ==
    /\ dbPlayer = [EarlierPlayer EXCEPT !.resources = Res(10, 0, 7)]
    /\ dbHexagons = [c \in Cells |->
           IF c = StartCell
           THEN [stored |-> TRUE, conquered |-> TRUE, conqueredBy |-> PlayerId,
                 conqueredAt |-> 0, baseLevel |-> 0]
           ELSE NoHex]
    /\ dbZones = [c \in Cells |->
           IF NearbyResourceHexagons[2] = c THEN Zone(NearTypes[2], 30, 7, 0) ELSE NoZone]

\* The store an earlier session left behind after a regeneration pass in flight
\* wrote its iron zone back across an initializeResourceZones that had cleared
\* the store and seeded the start cell: a zone on each cell of the window.
TwoZoneStore ==
    /\ dbPlayer = [id |-> PlayerId, resources |-> NewPlayerResources, score |-> 0,
                   baseHexagon |-> NoCell, position |-> StartCell]
    /\ dbHexagons = [c \in Cells |-> NoHex]
    /\ dbZones = [c \in Cells |->
           IF c = StartCell THEN Zone("wood", 50, 10, 0) ELSE Zone("iron", 37, 7, 0)]

\* No interval is registered (the effects return at once while playerState is
\* null): the clock of the intervals is not followed.
NoInterval == -1

\* watchId.current === null.
NoWatch == -1

NoIntervals ==
    /\ maintenanceInterval = NoInterval
    /\ positionUpdateInterval = NoInterval
    /\ sourceActive = TRUE
    /\ mounted = TRUE
    /\ watchId = NoWatch
    /\ watches = {}
    /\ starting = FALSE
    /\ ticksRun = 0

\* No coordinate (null).
NoPlace == -1

\* A refresh or home command in flight: its kind and position, the homeBase
\* of its closure (home), the coordinate it works on (arg), and whether the
\* player was away, by the flag and by the stored home, when it was called.
HomeIdle == [kind |-> "idle", pc |-> "idle", home |-> NoPlace, arg |-> NoPlace,
             away |-> FALSE]

\* No position is known, no home is loaded, the player is not away.
NoHome(maxStarted) ==
    /\ position = NoPlace
    /\ homeBase = NoPlace
    /\ isAwayFromHome = FALSE
    /\ homeOps = [s \in Slots |-> HomeIdle]
    /\ homeBudget = maxStarted
    /\ lastCheck = [called |-> FALSE, stored |-> NoPlace, current |-> NoPlace,
                    maxDistanceKm |-> 0, readOk |-> FALSE, result |-> FALSE]
    /\ lastHome = [kind |-> "none", ok |-> FALSE]

NoGridCell == [resolution |-> -1, q |-> 0, r |-> 0]
NoGridResult == [fn |-> "none", ok |-> FALSE, cell |-> NoGridCell, cells |-> <<>>]

\* No grid function is being followed.
NoGrid ==
    /\ gridInput = [lat |-> [kind |-> "finite", value |-> 0],
                    lng |-> [kind |-> "finite", value |-> 0], resolution |-> 9,
                    maxRadius |-> 0, maxHexagons |-> 0, order |-> "rings"]
    /\ gridResult = NoGridResult

\* No cleanup has been called.
NoCleanup == [before |-> {}, after |-> {}, completed |-> FALSE, called |-> FALSE]

\* The position history is empty and the watch has reported nothing.
NoHistory ==
    /\ playerPositions = {}
    /\ watchTime = 1
    /\ reports = <<>>
    /\ lastCleanup = NoCleanup

\* The hook is mounted: nothing is loaded, no command is in flight.
MountedHook(maxStarted, maxTime, mayFail, anyDraw) ==
    /\ now = 0
    /\ playerState = NoPlayer
    /\ resourceZones = NoZones
    /\ currentHexagon = NoCell
    /\ ops = [s \in Slots |-> Idle]
    /\ budget = maxStarted
    /\ horizon = maxTime
    /\ storeFails = mayFail
    /\ everyDraw = anyDraw
    /\ last = NoLast

Mounted(maxStarted, maxTime, mayFail, anyDraw) ==
    /\ MountedHook(maxStarted, maxTime, mayFail, anyDraw)
    /\ NoIntervals
    /\ NoHistory
    /\ dbHomeBase = NoPlace
    /\ NoHome(0)
    /\ NoGrid

Init == (FreshStore \/ ReturningStore) /\ Mounted(MaxStarted, MaxTime, FALSE, FALSE)

\* ------------------------------------------------------------------ helpers
IdleSlots == {s \in Slots : ops[s].kind = "idle"}

\* A command starts in the first free slot.
FreeSlot(s) == IdleSlots # {} /\ s = CHOOSE m \in IdleSlots : \A o \in IdleSlots : m <= o

CanStart(s) == FreeSlot(s) /\ budget > 0 /\ playerState # NoPlayer

\* The outcomes of one store operation: it completes, or (in a run where the
\* store may fail) it fails.
Outcomes == IF storeFails THEN {"ok", "fail"} ELSE {"ok"}

\* A command starts in slot s; in a run where the store may fail, the record
\* of one of the four commands keeps the store as the command found it (db).
Begin(s, op) ==
    /\ ops' = [ops EXCEPT ![s] =
                  IF storeFails
                     /\ op.kind \in {"conquer", "collect", "establish", "upgrade"}
                  THEN [op EXCEPT !.db = [player |-> dbPlayer, hexagons |-> dbHexagons,
                                          zones |-> dbZones]]
                  ELSE op]
    /\ budget' = budget - 1

Goto(s, op) == ops' = [ops EXCEPT ![s] = op]

\* The command of slot s returns ok (why: what made it fail).
Return(s, ok, why) ==
    /\ ops' = [ops EXCEPT ![s] = Idle]
    /\ last' = [kind |-> ops[s].kind, ok |-> ok, hex |-> ops[s].hex, why |-> why]

\* ---------------------------------------------------------------- the store
\* getHexagon(h3Index): the stored record; null when there is none and no zone
\* on the cell either, and null when the read fails.  A cell with a zone and
\* no record reads as the unconquered default.
getHexagon(h3Index, o) ==
    IF o = "fail" THEN NoHex ELSE dbHexagons[h3Index]

\* conquerHexagon(h3Index, conqueredBy, center): the record saveHexagon puts.
conquerHexagon(h3Index, conqueredBy) ==
    [dbHexagons EXCEPT ![h3Index] =
        [stored |-> TRUE, conquered |-> TRUE, conqueredBy |-> conqueredBy,
         conqueredAt |-> now, baseLevel |-> 0]]

\* updatePlayerResources(playerId, resources): the stored record with its
\* resources replaced (getPlayerState and savePlayerState, taken as one step).
updatePlayerResources(resources) == [dbPlayer EXCEPT !.resources = resources]

\* saveResourceZones(resourceZones): every zone of the list is put.
saveResourceZones(zones) ==
    [c \in Cells |-> IF zones[c] # NoZone THEN zones[c] ELSE dbZones[c]]

\* updateResourceZone(zone): the zone is put under its cell.
updateResourceZone(cell, zone) == [dbZones EXCEPT ![cell] = zone]

\* Variant: every store is emptied.
clearResourceZonesAllStores == [zones |-> NoZones, hexagons |-> [c \in Cells |-> NoHex]]

\* clearResourceZones(): the resourceZones store is emptied; the other stores
\* are left alone.
clearResourceZones == [zones |-> NoZones, hexagons |-> dbHexagons]

\* setPlayerBase(playerId, hexagonId).
setPlayerBase(hexagonId) == [dbPlayer EXCEPT !.baseHexagon = hexagonId]

\* ----------------------------------------------------------- initializeGame
\* initializeGame(), while playerState is null: a new player is created on the
\* start cell with its initial zones; an existing one is loaded, wherever the
\* device is now, with new zones when the store holds none.
InitializeGame ==
    /\ playerState = NoPlayer
    /\ \A s \in Slots : ops[s].kind = "idle"
    /\ LET existing == dbPlayer
           created == [id |-> PlayerId, resources |-> NewPlayerResources, score |-> 0,
                       baseHexagon |-> NoCell, position |-> StartCell]
       IN  IF existing = NoPlayer
           THEN /\ dbPlayer' = created
                /\ playerState' = created
                /\ \E zones \in generateInitialResourceZones(now) :
                       resourceZones' = zones /\ dbZones' = saveResourceZones(zones)
                /\ currentHexagon' = StartCell
           ELSE /\ playerState' = existing
                /\ currentHexagon' \in Cells
                /\ dbPlayer' = dbPlayer
                /\ IF dbZones = NoZones
                   THEN \E zones \in generateInitialResourceZones(now) :
                            resourceZones' = zones /\ dbZones' = saveResourceZones(zones)
                   ELSE resourceZones' = dbZones /\ dbZones' = dbZones
    /\ UNCHANGED <<now, dbHexagons, ops, budget, horizon, storeFails, everyDraw, last, otherVars>>

\* Time passes.
AdvanceTime ==
    /\ playerState # NoPlayer
    /\ \A s \in Slots : ops[s].kind = "idle"
    /\ now < horizon
    /\ now' = now + 1
    /\ UNCHANGED <<dbPlayer, dbHexagons, dbZones, playerState, resourceZones,
                   currentHexagon, ops, budget, horizon, storeFails, everyDraw, last, otherVars>>

\* ---------------------------------------------------- conquerCurrentHexagon
\* The call: the closure's currentHexagon and playerState are not null; the
\* command awaits getHexagon(currentHexagon).
ConquerStart(s) ==
    /\ CanStart(s)
    /\ currentHexagon # NoCell
    /\ Begin(s, [Idle EXCEPT !.kind = "conquer", !.pc = "read",
                             !.ps = playerState, !.hex = currentHexagon])
    /\ UNCHANGED <<now, dbPlayer, dbHexagons, dbZones, playerState, resourceZones,
                   currentHexagon, horizon, storeFails, everyDraw, last, otherVars>>

\* getHexagon answers: already conquered, or not affordable, returns false;
\* else the debit is computed from the closure's resources and
\* updatePlayerResources is awaited.
ConquerRead(s) ==
    /\ ops[s].kind = "conquer" /\ ops[s].pc = "read"
    /\ \E o \in Outcomes :
        /\ LET existingHexData == getHexagon(ops[s].hex, o)
               currentResources == ops[s].ps.resources
           IN  IF existingHexData.conquered
               THEN Return(s, FALSE, "AlreadyConquered")
               ELSE IF ~hasEnoughResources(currentResources, conquestCost)
               THEN Return(s, FALSE, "InsufficientResources")
               ELSE /\ Goto(s, [ops[s] EXCEPT !.pc = "debit",
                                   !.res = subtractResources(currentResources, conquestCost)])
                    /\ last' = last
    /\ UNCHANGED <<now, dbPlayer, dbHexagons, dbZones, playerState, resourceZones,
                   currentHexagon, budget, horizon, storeFails, everyDraw, otherVars>>

\* updatePlayerResources completes (or throws: return false); then
\* setPlayerState(prev => {...prev, resources: newResources}) and conquerHexagon
\* is awaited.
ConquerDebit(s) ==
    /\ ops[s].kind = "conquer" /\ ops[s].pc = "debit"
    /\ \E o \in Outcomes :
        /\ IF o = "fail" \/ dbPlayer = NoPlayer
           THEN /\ Return(s, FALSE, "StoreFailure")
                /\ UNCHANGED <<dbPlayer, playerState>>
           ELSE /\ dbPlayer' = updatePlayerResources(ops[s].res)
                /\ playerState' = IF playerState = NoPlayer THEN NoPlayer
                                  ELSE [playerState EXCEPT !.resources = ops[s].res]
                /\ Goto(s, [ops[s] EXCEPT !.pc = "hex"])
                /\ last' = last
    /\ UNCHANGED <<now, dbHexagons, dbZones, resourceZones, currentHexagon,
                   budget, horizon, storeFails, everyDraw, otherVars>>

\* conquerHexagon completes (or throws: return false); the command then reads
\* the record and the statistics back.
ConquerHex(s) ==
    /\ ops[s].kind = "conquer" /\ ops[s].pc = "hex"
    /\ \E o \in Outcomes :
        /\ IF o = "fail"
           THEN /\ Return(s, FALSE, "StoreFailure")
                /\ UNCHANGED dbHexagons
           ELSE /\ dbHexagons' = conquerHexagon(ops[s].hex, ops[s].ps.id)
                /\ Goto(s, [ops[s] EXCEPT !.pc = "score"])
                /\ last' = last
    /\ UNCHANGED <<now, dbPlayer, dbZones, playerState, resourceZones,
                   currentHexagon, budget, horizon, storeFails, everyDraw, otherVars>>

\* updatePlayerScore(playerState.score + 10), the callback of the same render:
\* updatedState = {...playerState, score} of the closure; setPlayerState(updatedState).
updatePlayerScore(closure, score) ==
    [closure EXCEPT !.score = IF score > 0 THEN score ELSE 0]

ConquerScore(s) ==
    /\ ops[s].kind = "conquer" /\ ops[s].pc = "score"
    /\ playerState' = updatePlayerScore(ops[s].ps, ops[s].ps.score + 10)
    /\ Goto(s, [ops[s] EXCEPT !.pc = "save"])
    /\ UNCHANGED <<now, dbPlayer, dbHexagons, dbZones, resourceZones,
                   currentHexagon, budget, horizon, storeFails, everyDraw, last, otherVars>>

\* Variant: the result does not wait for savePlayerState.
ConquerSaveUnawaited(s) ==
    /\ ops[s].kind = "conquer" /\ ops[s].pc = "save"
    /\ \E o \in Outcomes :
        /\ dbPlayer' = IF o = "fail" THEN dbPlayer
                       ELSE updatePlayerScore(ops[s].ps, ops[s].ps.score + 10)
        /\ Return(s, TRUE, "ok")
    /\ UNCHANGED <<now, dbHexagons, dbZones, playerState, resourceZones,
                   currentHexagon, budget, horizon, storeFails, everyDraw, otherVars>>

\* savePlayerState(updatedState) completes (or throws: return false); return true.
ConquerSave(s) ==
    /\ ops[s].kind = "conquer" /\ ops[s].pc = "save"
    /\ \E o \in Outcomes :
        /\ IF o = "fail"
           THEN /\ Return(s, FALSE, "StoreFailure")
                /\ UNCHANGED dbPlayer
           ELSE /\ dbPlayer' = updatePlayerScore(ops[s].ps, ops[s].ps.score + 10)
                /\ Return(s, TRUE, "ok")
    /\ UNCHANGED <<now, dbHexagons, dbZones, playerState, resourceZones,
                   currentHexagon, budget, horizon, storeFails, everyDraw, otherVars>>

Conquer(s) ==
    \/ ConquerStart(s)
    \/ ConquerRead(s)
    \/ ConquerDebit(s)
    \/ ConquerHex(s)
    \/ ConquerScore(s)
    \/ ConquerSave(s)

\* ---------------------------------------------------------- collectResources
\* The values Math.random() takes, in thousandths: every one of them, or (in a
\* run that draws the ends only) the least and the greatest.
Randoms == IF everyDraw THEN 0..999 ELSE {0, 999}

\* Variant: the rate goes up to 0.4.
collectedAmountsWide(amount) ==
    {(amount * (1000 + 3 * random)) \div 10000 : random \in Randoms}

\* collectionRate = 0.1 + Math.random() * 0.2 (in ten-thousandths) and
\* collectedAmount = Math.floor(amount * collectionRate), for every draw.
collectedAmounts(amount) ==
    {(amount * (1000 + 2 * random)) \div 10000 : random \in Randoms}

CollectStart(s) ==
    /\ CanStart(s)
    /\ \E hexagonId \in Cells :
           Begin(s, [Idle EXCEPT !.kind = "collect", !.pc = "read",
                                 !.ps = playerState, !.hex = hexagonId])
    /\ UNCHANGED <<now, dbPlayer, dbHexagons, dbZones, playerState, resourceZones,
                   currentHexagon, horizon, storeFails, everyDraw, last, otherVars>>

\* Variant: a collection of nothing is not turned away.
CollectReadOfNothing(s) ==
    /\ ops[s].kind = "collect" /\ ops[s].pc = "read"
    /\ \E o \in Outcomes :
        /\ LET resourceZone == IF o = "fail" THEN NoZone ELSE dbZones[ops[s].hex]
           IN  IF resourceZone = NoZone \/ resourceZone.amount <= 0
               THEN Return(s, FALSE, "NoZone")
               ELSE \E collectedAmount \in collectedAmounts(resourceZone.amount) :
                      /\ Goto(s, [ops[s] EXCEPT
                             !.pc = "credit",
                             !.zone = [resourceZone EXCEPT
                                          !.amount = resourceZone.amount - collectedAmount],
                             !.res = addResources(ops[s].ps.resources,
                                         OnlyOf(resourceZone.resourceType, collectedAmount))])
                      /\ last' = last
    /\ UNCHANGED <<now, dbPlayer, dbHexagons, dbZones, playerState, resourceZones,
                   currentHexagon, budget, horizon, storeFails, everyDraw, otherVars>>

\* getResourceZone answers (null when the read fails): no zone, an empty zone or
\* nothing to collect returns false; else the credit is computed from the
\* closure's resources and updatePlayerResources is awaited.
CollectRead(s) ==
    /\ ops[s].kind = "collect" /\ ops[s].pc = "read"
    /\ \E o \in Outcomes :
        /\ LET resourceZone == IF o = "fail" THEN NoZone ELSE dbZones[ops[s].hex]
           IN  IF resourceZone = NoZone \/ resourceZone.amount <= 0
               THEN Return(s, FALSE, "NoZone")
               ELSE \E collectedAmount \in collectedAmounts(resourceZone.amount) :
                      IF collectedAmount <= 0
                      THEN Return(s, FALSE, "Nothing")
                      ELSE /\ Goto(s, [ops[s] EXCEPT
                                  !.pc = "credit",
                                  !.zone = [resourceZone EXCEPT
                                               !.amount = resourceZone.amount - collectedAmount],
                                  !.res = addResources(ops[s].ps.resources,
                                              OnlyOf(resourceZone.resourceType, collectedAmount))])
                           /\ last' = last
    /\ UNCHANGED <<now, dbPlayer, dbHexagons, dbZones, playerState, resourceZones,
                   currentHexagon, budget, horizon, storeFails, everyDraw, otherVars>>

\* updatePlayerResources completes (or throws: return false); updatedZone takes
\* lastRegeneration = new Date() and updateResourceZone is awaited.
CollectCredit(s) ==
    /\ ops[s].kind = "collect" /\ ops[s].pc = "credit"
    /\ \E o \in Outcomes :
        /\ IF o = "fail" \/ dbPlayer = NoPlayer
           THEN /\ Return(s, FALSE, "StoreFailure")
                /\ UNCHANGED dbPlayer
           ELSE /\ dbPlayer' = updatePlayerResources(ops[s].res)
                /\ Goto(s, [ops[s] EXCEPT !.pc = "zone",
                                          !.zone = [ops[s].zone EXCEPT !.lastRegeneration = now]])
                /\ last' = last
    /\ UNCHANGED <<now, dbHexagons, dbZones, playerState, resourceZones,
                   currentHexagon, budget, horizon, storeFails, everyDraw, otherVars>>

\* updateResourceZone completes (or throws: return false); then the functional
\* updates of playerState and of the zone list, and return true.
CollectZone(s) ==
    /\ ops[s].kind = "collect" /\ ops[s].pc = "zone"
    /\ \E o \in Outcomes :
        /\ IF o = "fail"
           THEN /\ Return(s, FALSE, "StoreFailure")
                /\ UNCHANGED <<dbZones, playerState, resourceZones>>
           ELSE /\ dbZones' = updateResourceZone(ops[s].hex, ops[s].zone)
                /\ playerState' = IF playerState = NoPlayer THEN NoPlayer
                                  ELSE [playerState EXCEPT !.resources = ops[s].res]
                /\ resourceZones' = [c \in Cells |->
                       IF c = ops[s].hex /\ resourceZones[c] # NoZone
                       THEN ops[s].zone ELSE resourceZones[c]]
                /\ Return(s, TRUE, "ok")
    /\ UNCHANGED <<now, dbPlayer, dbHexagons, currentHexagon, budget, horizon, storeFails, everyDraw, otherVars>>

Collect(s) ==
    \/ CollectStart(s)
    \/ CollectRead(s)
    \/ CollectCredit(s)
    \/ CollectZone(s)

\* -------------------------------------------------------------- establishBase
EstablishStart(s) ==
    /\ CanStart(s)
    /\ \E hexagonId \in Cells :
           Begin(s, [Idle EXCEPT !.kind = "establish", !.pc = "read",
                                 !.ps = playerState, !.hex = hexagonId])
    /\ UNCHANGED <<now, dbPlayer, dbHexagons, dbZones, playerState, resourceZones,
                   currentHexagon, horizon, storeFails, everyDraw, last, otherVars>>

\* getHexagon answers: a cell that is not conquered, a player with a base, or a
\* cost that is not covered returns false; else updatePlayerResources is awaited.
EstablishRead(s) ==
    /\ ops[s].kind = "establish" /\ ops[s].pc = "read"
    /\ \E o \in Outcomes :
        /\ LET hexData == getHexagon(ops[s].hex, o)
               currentResources == ops[s].ps.resources
           IN  IF ~hexData.conquered
               THEN Return(s, FALSE, "NotConquered")
               ELSE IF ops[s].ps.baseHexagon # NoCell
               THEN Return(s, FALSE, "AlreadyHasBase")
               ELSE IF ~hasEnoughResources(currentResources, baseCost)
               THEN Return(s, FALSE, "InsufficientResources")
               ELSE /\ Goto(s, [ops[s] EXCEPT !.pc = "debit",
                                   !.res = subtractResources(currentResources, baseCost)])
                    /\ last' = last
    /\ UNCHANGED <<now, dbPlayer, dbHexagons, dbZones, playerState, resourceZones,
                   currentHexagon, budget, horizon, storeFails, everyDraw, otherVars>>

\* updatePlayerResources completes (or throws: return false); setPlayerBase is
\* awaited.
EstablishDebit(s) ==
    /\ ops[s].kind = "establish" /\ ops[s].pc = "debit"
    /\ \E o \in Outcomes :
        /\ IF o = "fail" \/ dbPlayer = NoPlayer
           THEN /\ Return(s, FALSE, "StoreFailure")
                /\ UNCHANGED dbPlayer
           ELSE /\ dbPlayer' = updatePlayerResources(ops[s].res)
                /\ Goto(s, [ops[s] EXCEPT !.pc = "base"])
                /\ last' = last
    /\ UNCHANGED <<now, dbHexagons, dbZones, playerState, resourceZones,
                   currentHexagon, budget, horizon, storeFails, everyDraw, otherVars>>

\* setPlayerBase completes (or throws: return false); updatedHexData (the record
\* with its level-1 base) is built and dropped: nothing saves it; then
\* setPlayerState(prev => {...prev, resources, baseHexagon}) and return true.
EstablishBase(s) ==
    /\ ops[s].kind = "establish" /\ ops[s].pc = "base"
    /\ \E o \in Outcomes :
        /\ IF o = "fail" \/ dbPlayer = NoPlayer
           THEN /\ Return(s, FALSE, "StoreFailure")
                /\ UNCHANGED <<dbPlayer, playerState>>
           ELSE /\ dbPlayer' = setPlayerBase(ops[s].hex)
                /\ playerState' = IF playerState = NoPlayer THEN NoPlayer
                                  ELSE [playerState EXCEPT !.resources = ops[s].res,
                                                           !.baseHexagon = ops[s].hex]
                /\ Return(s, TRUE, "ok")
    /\ UNCHANGED <<now, dbHexagons, dbZones, resourceZones, currentHexagon,
                   budget, horizon, storeFails, everyDraw, otherVars>>

Establish(s) ==
    \/ EstablishStart(s)
    \/ EstablishRead(s)
    \/ EstablishDebit(s)
    \/ EstablishBase(s)

\* ----------------------------------------------------------------- upgradeBase
\* The call: a cell that is not the closure's baseHexagon returns false at once;
\* else getHexagon is awaited.
\* Variant: the call goes on to the store whatever the cell.
UpgradeStartAnyCell(s) ==
    /\ CanStart(s)
    /\ \E hexagonId \in Cells :
           /\ Begin(s, [Idle EXCEPT !.kind = "upgrade", !.pc = "read",
                                    !.ps = playerState, !.hex = hexagonId])
           /\ last' = last
    /\ UNCHANGED <<now, dbPlayer, dbHexagons, dbZones, playerState, resourceZones,
                   currentHexagon, horizon, storeFails, everyDraw, otherVars>>

UpgradeStart(s) ==
    /\ CanStart(s)
    /\ \E hexagonId \in Cells :
           LET op == [Idle EXCEPT !.kind = "upgrade", !.pc = "read",
                                  !.ps = playerState, !.hex = hexagonId]
           IN  IF playerState.baseHexagon # hexagonId
               THEN /\ ops' = ops
                    /\ budget' = budget - 1
                    /\ last' = [kind |-> "upgrade", ok |-> FALSE, hex |-> hexagonId,
                                 why |-> "NotOwner"]
               ELSE Begin(s, op) /\ last' = last
    /\ UNCHANGED <<now, dbPlayer, dbHexagons, dbZones, playerState, resourceZones,
                   currentHexagon, horizon, storeFails, everyDraw, otherVars>>

\* getHexagon answers: no record, no base on the record, a base of level 2 or a
\* cost that is not covered returns false; else updatePlayerResources is awaited.
\* Then updatePlayerResources completes (or throws: return false),
\* setPlayerState(prev => {...prev, resources: newResources}) and return true.
UpgradeStep(s) ==
    /\ ops[s].kind = "upgrade"
    /\ \E o \in Outcomes :
        /\ IF ops[s].pc = "read"
           THEN LET hexData == getHexagon(ops[s].hex, o)
                    currentResources == ops[s].ps.resources
                IN  /\ IF ~hexData.stored \/ hexData.baseLevel = 0
                       THEN Return(s, FALSE, "NoBase")
                       ELSE IF hexData.baseLevel >= 2
                       THEN Return(s, FALSE, "AlreadyMaxLevel")
                       ELSE IF ~hasEnoughResources(currentResources, upgradeCost)
                       THEN Return(s, FALSE, "InsufficientResources")
                       ELSE /\ Goto(s, [ops[s] EXCEPT !.pc = "debit",
                                   !.res = subtractResources(currentResources, upgradeCost)])
                            /\ last' = last
                    /\ UNCHANGED <<dbPlayer, playerState>>
           ELSE IF o = "fail" \/ dbPlayer = NoPlayer
                THEN /\ Return(s, FALSE, "StoreFailure")
                     /\ UNCHANGED <<dbPlayer, playerState>>
                ELSE /\ dbPlayer' = updatePlayerResources(ops[s].res)
                     /\ playerState' = IF playerState = NoPlayer THEN NoPlayer
                                       ELSE [playerState EXCEPT !.resources = ops[s].res]
                     /\ Return(s, TRUE, "ok")
    /\ UNCHANGED <<now, dbHexagons, dbZones, resourceZones, currentHexagon,
                   budget, horizon, storeFails, everyDraw, otherVars>>

Upgrade(s) ==
    \/ UpgradeStart(s)
    \/ UpgradeStep(s)

\* ------------------------------------------------- refreshPosition / auto-refresh
RefreshStart(s) ==
    /\ CanStart(s)
    /\ Begin(s, [Idle EXCEPT !.kind = "refresh", !.pc = "locate", !.ps = playerState])
    /\ UNCHANGED <<now, dbPlayer, dbHexagons, dbZones, playerState, resourceZones,
                   currentHexagon, horizon, storeFails, everyDraw, last, otherVars>>

\* getCurrentPosition resolves with a position (or rejects: the error is set and
\* the refresh ends); setPosition, setCurrentHexagon, and the record and the
\* statistics of the cell are read.
RefreshLocate(s) ==
    /\ ops[s].kind = "refresh" /\ ops[s].pc = "locate"
    /\ \/ \E newPosition \in Cells :
            /\ currentHexagon' = newPosition
            /\ Goto(s, [ops[s] EXCEPT !.pc = "set", !.hex = newPosition])
            /\ last' = last
       \/ /\ Return(s, FALSE, "PositionUnavailable")
          /\ currentHexagon' = currentHexagon
    /\ UNCHANGED <<now, dbPlayer, dbHexagons, dbZones, playerState, resourceZones,
                   budget, horizon, storeFails, everyDraw, otherVars>>

\* updatedState = {...playerState, position: newPosition} of the closure;
\* setPlayerState(updatedState); savePlayerState(updatedState) is awaited.
withPosition(closure, newPosition) == [closure EXCEPT !.position = newPosition]

RefreshSet(s) ==
    /\ ops[s].kind = "refresh" /\ ops[s].pc = "set"
    /\ playerState' = withPosition(ops[s].ps, ops[s].hex)
    /\ Goto(s, [ops[s] EXCEPT !.pc = "save"])
    /\ UNCHANGED <<now, dbPlayer, dbHexagons, dbZones, resourceZones,
                   currentHexagon, budget, horizon, storeFails, everyDraw, last, otherVars>>

\* savePlayerState(updatedState) completes (or throws: the error is set).
RefreshSave(s) ==
    /\ ops[s].kind = "refresh" /\ ops[s].pc = "save"
    /\ \E o \in Outcomes :
        /\ IF o = "fail"
           THEN /\ Return(s, FALSE, "StoreFailure")
                /\ UNCHANGED dbPlayer
           ELSE /\ dbPlayer' = withPosition(ops[s].ps, ops[s].hex)
                /\ Return(s, TRUE, "ok")
    /\ UNCHANGED <<now, dbHexagons, dbZones, playerState, resourceZones,
                   currentHexagon, budget, horizon, storeFails, everyDraw, otherVars>>

Refresh(s) ==
    \/ RefreshStart(s)
    \/ RefreshLocate(s)
    \/ RefreshSet(s)
    \/ RefreshSave(s)

\* --------------------------------------------------------- maintenanceInterval
Min(a, b) == IF a < b THEN a ELSE b

\* Variant: any time elapsed makes the zone due.
DueAtOnce(zone, t) == zone # NoZone /\ t - zone.lastRegeneration >= 1

\* hoursElapsed >= 1 for the zone at time t.
Due(zone, t) == zone # NoZone /\ t - zone.lastRegeneration >= TicksPerHour

\* Variant: the regeneration without its cap.
regenerateUncapped(zone, t) ==
    IF Due(zone, t)
    THEN LET regenAmount == (zone.regenerationRate * (t - zone.lastRegeneration))
                                \div TicksPerHour
         IN  [zone EXCEPT !.amount = zone.amount + regenAmount,
                          !.lastRegeneration = t]
    ELSE zone

\* One zone of the regeneration pass at time t.
regenerate(zone, t) ==
    IF Due(zone, t)
    THEN LET regenAmount == (zone.regenerationRate * (t - zone.lastRegeneration))
                                \div TicksPerHour
             maxAmount == getResourceBaseAmount(zone.resourceType) * 2
         IN  [zone EXCEPT !.amount = Min(zone.amount + regenAmount, maxAmount),
                          !.lastRegeneration = t]
    ELSE zone

\* After the regeneration pass: setResourceZones(updatedZones) when the closure's
\* list is not empty; then the base maintenance on the closure's playerState:
\* with a base and the maintenance covered, updatePlayerResources(newResources)
\* is awaited; else the tick ends.
AfterRegeneration(s, op) ==
    /\ resourceZones' = IF op.zs = NoZones THEN resourceZones ELSE op.zs
    /\ IF /\ op.ps.baseHexagon # NoCell
          /\ hasEnoughResources(op.ps.resources, maintenanceCost)
       THEN /\ ops' = [ops EXCEPT ![s] = [op EXCEPT
                         !.pc = "maintain",
                         !.res = subtractResources(op.ps.resources, maintenanceCost)]]
            /\ last' = last
       ELSE /\ ops' = [ops EXCEPT ![s] = Idle]
            /\ last' = [kind |-> "tick", ok |-> TRUE, hex |-> NoCell,
                         why |-> IF op.ps.baseHexagon = NoCell THEN "ok" ELSE "Starved"]

\* The interval fires: every zone of the closure's list is mapped at once (the
\* zones that are due are rebuilt and their updateResourceZone awaited).
\* Variant: the maintenance is evaluated when the interval fires, whatever zone
\* writes are under way.
TickStartMaintenanceFirst(s) ==
    /\ CanStart(s)
    /\ LET op == [Idle EXCEPT !.kind = "tick", !.pc = "regen", !.ps = playerState,
                              !.zs = [c \in Cells |-> regenerate(resourceZones[c], now)],
                              !.granted = [c \in Cells |->
                                  regenerate(resourceZones[c], now).amount
                                      - resourceZones[c].amount],
                              !.pending = {c \in Cells : Due(resourceZones[c], now)}]
       IN  /\ budget' = budget - 1
           /\ AfterRegeneration(s, op)
    /\ UNCHANGED <<now, dbPlayer, dbHexagons, dbZones, playerState,
                   currentHexagon, horizon, storeFails, everyDraw, otherVars>>

TickStart(s) ==
    /\ CanStart(s)
    /\ LET op == [Idle EXCEPT !.kind = "tick", !.pc = "regen", !.ps = playerState,
                              !.zs = [c \in Cells |-> regenerate(resourceZones[c], now)],
                              !.granted = [c \in Cells |->
                                  regenerate(resourceZones[c], now).amount
                                      - resourceZones[c].amount],
                              !.pending = {c \in Cells : Due(resourceZones[c], now)}]
       IN  /\ budget' = budget - 1
           /\ IF op.pending = {}
              THEN AfterRegeneration(s, op)
              ELSE /\ ops' = [ops EXCEPT ![s] = op]
                   /\ UNCHANGED <<resourceZones, last>>
    /\ UNCHANGED <<now, dbPlayer, dbHexagons, dbZones, playerState,
                   currentHexagon, horizon, storeFails, everyDraw, otherVars>>

\* One updateResourceZone of the pass completes, or throws: Promise.all rejects,
\* and the tick ends in its catch once the writes under way have settled.
TickRegen(s) ==
    /\ ops[s].kind = "tick" /\ ops[s].pc = "regen"
    /\ \E c \in ops[s].pending, o \in Outcomes :
        /\ dbZones' = IF o = "fail" THEN dbZones
                      ELSE updateResourceZone(c, ops[s].zs[c])
        /\ LET op == [ops[s] EXCEPT !.pending = ops[s].pending \ {c},
                                    !.failed = ops[s].failed \/ o = "fail"]
           IN  IF op.pending # {}
               THEN Goto(s, op) /\ UNCHANGED <<resourceZones, last>>
               ELSE IF op.failed
               THEN Return(s, FALSE, "StoreFailure") /\ UNCHANGED resourceZones
               ELSE AfterRegeneration(s, op)
    /\ UNCHANGED <<now, dbPlayer, dbHexagons, playerState, currentHexagon,
                   budget, horizon, storeFails, everyDraw, otherVars>>

\* updatePlayerResources(newResources) completes (or throws: the tick ends);
\* finalResources adds the production; updatePlayerResources(finalResources) is
\* awaited.
TickMaintain(s) ==
    /\ ops[s].kind = "tick" /\ ops[s].pc = "maintain"
    /\ \E o \in Outcomes :
        /\ IF o = "fail" \/ dbPlayer = NoPlayer
           THEN /\ Return(s, FALSE, "StoreFailure")
                /\ UNCHANGED dbPlayer
           ELSE /\ dbPlayer' = updatePlayerResources(ops[s].res)
                /\ Goto(s, [ops[s] EXCEPT !.pc = "produce",
                                          !.res = addResources(ops[s].res, baseProduction)])
                /\ last' = last
    /\ UNCHANGED <<now, dbHexagons, dbZones, playerState, resourceZones,
                   currentHexagon, budget, horizon, storeFails, everyDraw, otherVars>>

\* updatePlayerResources(finalResources) completes (or throws: the tick ends);
\* setPlayerState(prev => {...prev, resources: finalResources}).
TickProduce(s) ==
    /\ ops[s].kind = "tick" /\ ops[s].pc = "produce"
    /\ \E o \in Outcomes :
        /\ IF o = "fail" \/ dbPlayer = NoPlayer
           THEN /\ Return(s, FALSE, "StoreFailure")
                /\ UNCHANGED <<dbPlayer, playerState>>
           ELSE /\ dbPlayer' = updatePlayerResources(ops[s].res)
                /\ playerState' = IF playerState = NoPlayer THEN NoPlayer
                                  ELSE [playerState EXCEPT !.resources = ops[s].res]
                /\ Return(s, TRUE, "ok")
    /\ UNCHANGED <<now, dbHexagons, dbZones, resourceZones, currentHexagon,
                   budget, horizon, storeFails, everyDraw, otherVars>>

Tick(s) ==
    \/ TickStart(s)
    \/ TickRegen(s)
    \/ TickMaintain(s)
    \/ TickProduce(s)

\* ------------------------------------------------------ initializeResourceZones
\* generateResourceZones(hexagons, 8).
SeedCount == 8

ReseedStart(s) ==
    /\ CanStart(s)
    /\ currentHexagon # NoCell
    /\ Begin(s, [Idle EXCEPT !.kind = "reseed", !.pc = "clear", !.ps = playerState,
                             !.pending = {currentHexagon}])
    /\ UNCHANGED <<now, dbPlayer, dbHexagons, dbZones, playerState, resourceZones,
                   currentHexagon, horizon, storeFails, everyDraw, last, otherVars>>

\* clearResourceZones completes (or throws: the error is logged); the new zones
\* are generated and saveResourceZones is awaited.
ReseedClear(s) ==
    /\ ops[s].kind = "reseed" /\ ops[s].pc = "clear"
    /\ \E o \in Outcomes :
        /\ IF o = "fail"
           THEN /\ Return(s, FALSE, "StoreFailure")
                /\ UNCHANGED <<dbZones, dbHexagons>>
           ELSE /\ dbZones' = clearResourceZones.zones
                /\ dbHexagons' = clearResourceZones.hexagons
                /\ \E newZones \in generateResourceZones(ops[s].pending, SeedCount, now) :
                       Goto(s, [ops[s] EXCEPT !.pc = "save", !.zs = newZones])
                /\ last' = last
    /\ UNCHANGED <<now, dbPlayer, playerState, resourceZones,
                   currentHexagon, budget, horizon, storeFails, everyDraw, otherVars>>

\* saveResourceZones puts every new zone in one transaction (or throws: the
\* error is logged); setResourceZones(newZones).
ReseedSave(s) ==
    /\ ops[s].kind = "reseed" /\ ops[s].pc = "save"
    /\ \E o \in Outcomes :
        /\ IF o = "fail"
           THEN /\ Return(s, FALSE, "StoreFailure")
                /\ UNCHANGED <<dbZones, resourceZones>>
           ELSE /\ dbZones' = saveResourceZones(ops[s].zs)
                /\ resourceZones' = ops[s].zs
                /\ Return(s, TRUE, "ok")
    /\ UNCHANGED <<now, dbPlayer, dbHexagons, playerState, currentHexagon,
                   budget, horizon, storeFails, everyDraw, otherVars>>

Reseed(s) ==
    \/ ReseedStart(s)
    \/ ReseedClear(s)
    \/ ReseedSave(s)

\* ------------------------------------------------------------- the intervals
\* The periods of the two intervals, in units of 5 seconds: setInterval(...,
\* 60 * 1000) and setInterval(..., 5000).
TickPeriod == 12
PositionPeriod == 1

\* The effects run after the render that brought the player: both intervals
\* are registered.
RegisterIntervals ==
    /\ mounted
    /\ playerState # NoPlayer
    /\ maintenanceInterval = NoInterval
    /\ maintenanceInterval' = TickPeriod
    /\ positionUpdateInterval' = PositionPeriod
    /\ UNCHANGED <<gameVars, sourceActive, ticksRun, watchVars, historyVars,
                   homeVars, gridVars>>

\* 5 seconds pass: no interval is at its time.
Elapse ==
    /\ maintenanceInterval > 0
    /\ positionUpdateInterval > 0
    /\ maintenanceInterval' = maintenanceInterval - 1
    /\ positionUpdateInterval' = positionUpdateInterval - 1
    /\ UNCHANGED <<gameVars, sourceActive, ticksRun, watchVars, historyVars,
                   homeVars, gridVars>>

\* The Position Source starts or stops answering.
SourceChanges ==
    /\ maintenanceInterval # NoInterval
    /\ sourceActive' = ~sourceActive
    /\ UNCHANGED <<gameVars, maintenanceInterval, positionUpdateInterval, ticksRun, watchVars, historyVars,
                   homeVars, gridVars>>

\* The position interval fires, no command being in flight. getCurrentPosition
\* rejects: the error is logged and the interval goes on. It resolves:
\* setPosition, updateCurrentHexagon, setPlayerState(updatedState) and
\* savePlayerState(updatedState); playerState is a new object, so both effects
\* are cleaned up (clearInterval) and run again (setInterval): each interval
\* starts its period anew.
PositionIntervalFires ==
    /\ positionUpdateInterval = 0
    /\ \A s \in Slots : ops[s] = Idle
    /\ IF sourceActive
       THEN \E newPosition \in Cells :
               /\ currentHexagon' = newPosition
               /\ playerState' = withPosition(playerState, newPosition)
               /\ dbPlayer' = withPosition(playerState, newPosition)
               /\ maintenanceInterval' = TickPeriod
               /\ positionUpdateInterval' = PositionPeriod
       ELSE /\ positionUpdateInterval' = PositionPeriod
            /\ UNCHANGED <<currentHexagon, playerState, dbPlayer, maintenanceInterval>>
    /\ UNCHANGED <<now, dbHexagons, dbZones, resourceZones, ops, budget, horizon,
                   storeFails, everyDraw, last, sourceActive, ticksRun, watchVars, historyVars,
                   homeVars, gridVars>>

\* The maintenance interval fires: the callback runs (the tick), and the
\* interval goes on.
MaintenanceIntervalFires ==
    /\ maintenanceInterval = 0
    /\ ticksRun' = IF ticksRun < MaxTicksRun THEN ticksRun + 1 ELSE ticksRun
    /\ maintenanceInterval' = TickPeriod
    /\ UNCHANGED <<gameVars, positionUpdateInterval, sourceActive, watchVars, historyVars,
                   homeVars, gridVars>>

\* ------------------------------------------------------- the position history
\* cleanupOldPositions keeps the last 100 positions.
KeptPositions == 100

\* The watch reports a position: the callback builds playerPosition with the
\* timestamp Date.now() and awaits savePlayerPosition.
WatchReports ==
    /\ Len(reports) < MaxReports
    /\ \E c \in Cells :
          reports' = Append(reports,
              [position |-> [at |-> c, timestamp |-> watchTime],
               saved |-> "pending", delivered |-> <<>>])
    /\ UNCHANGED <<gameVars, clockVars, playerPositions, watchTime, lastCleanup, homeVars, gridVars>>

\* A millisecond passes.
WatchTimePasses ==
    /\ watchTime < MaxStored + 1 + MaxWatchTime
    /\ watchTime' = watchTime + 1
    /\ UNCHANGED <<gameVars, clockVars, playerPositions, reports, lastCleanup, homeVars, gridVars>>

\* Variant: a failed save ends the callback.
SavePlayerPositionSettlesAborting(i) ==
    /\ i \in 1..Len(reports)
    /\ reports[i].saved = "pending"
    /\ LET p == reports[i].position
       IN \/ /\ p.timestamp \notin playerPositions
             /\ playerPositions' = playerPositions \cup {p.timestamp}
             /\ reports' = [reports EXCEPT ![i].saved = "saved",
                                           ![i].delivered = Append(@, p)]
          \/ /\ storeFails \/ p.timestamp \in playerPositions
             /\ reports' = [reports EXCEPT ![i].saved = "failed"]
             /\ UNCHANGED playerPositions
    /\ UNCHANGED <<gameVars, clockVars, watchTime, lastCleanup, homeVars, gridVars>>

\* savePlayerPosition of report i settles and the callback goes on. db.add
\* stores the entry under its timestamp: onSuccess(playerPosition). It rejects
\* (the store fails, or the key is there already): the error is logged twice
\* and onSuccess(playerPosition) is called from the catch.
SavePlayerPositionSettles(i) ==
    /\ i \in 1..Len(reports)
    /\ reports[i].saved = "pending"
    /\ LET p == reports[i].position
       IN \/ /\ p.timestamp \notin playerPositions
             /\ playerPositions' = playerPositions \cup {p.timestamp}
             /\ reports' = [reports EXCEPT ![i].saved = "saved",
                                           ![i].delivered = Append(@, p)]
          \/ /\ storeFails \/ p.timestamp \in playerPositions
             /\ reports' = [reports EXCEPT ![i].saved = "failed",
                                           ![i].delivered = Append(@, p)]
             /\ UNCHANGED playerPositions
    /\ UNCHANGED <<gameVars, clockVars, watchTime, lastCleanup, homeVars, gridVars>>

\* The first count keys of index.getAllKeys(), which lists the keys in the
\* order of the index by-timestamp (oldest first): allKeys.slice(0, count).
RECURSIVE firstKeys(_, _)
firstKeys(allKeys, count) ==
    IF count <= 0 \/ allKeys = {}
    THEN {}
    ELSE LET oldest == CHOOSE k \in allKeys : \A other \in allKeys : k <= other
         IN {oldest} \cup firstKeys(allKeys \ {oldest}, count - 1)

\* Variant: the slice keeps the first 100 keys.
keysToDeleteNewest(allKeys) ==
    IF Cardinality(allKeys) > KeptPositions
    THEN allKeys \ firstKeys(allKeys, KeptPositions)
    ELSE {}

\* allKeys.slice(0, allKeys.length - 100) when there are more than 100 keys.
keysToDelete(allKeys) ==
    IF Cardinality(allKeys) > KeptPositions
    THEN firstKeys(allKeys, Cardinality(allKeys) - KeptPositions)
    ELSE {}

\* cleanupOldPositions, one readwrite transaction on playerPositions: it
\* commits and the keys to delete are gone, or it fails, nothing is deleted
\* and the error is logged.
CleanupOldPositions ==
    /\ \/ /\ playerPositions' = playerPositions \ keysToDelete(playerPositions)
          /\ lastCleanup' = [before |-> playerPositions, after |-> playerPositions',
                             completed |-> TRUE, called |-> TRUE]
       \/ /\ storeFails
          /\ lastCleanup' = [before |-> playerPositions, after |-> playerPositions,
                             completed |-> FALSE, called |-> TRUE]
          /\ UNCHANGED playerPositions
    /\ UNCHANGED <<gameVars, clockVars, watchTime, reports, homeVars, gridVars>>

\* ------------------------------------------------------------ the home tracker
\* The commands of the game above follow the cell of the player; the home
\* tracker follows the coordinate. The coordinates the model follows lie on
\* one meridian, in kilometres of arc from the first: there the Haversine
\* formula (R = 6371 km) gives the difference of the two coordinates.
Places == {0, 5, 10}

\* The threshold the hook passes to isPlayerFarFromHome.
AwayThresholdKm == 5

haversineKm(a, b) == IF a > b THEN a - b ELSE b - a

\* getPlayerHomeBase(playerId): the stored position, null when there is none,
\* and null when the read fails.
getPlayerHomeBase(o) == IF o = "fail" THEN NoPlace ELSE dbHomeBase

\* Variant: a player at the threshold is away.
isPlayerFarFromHomeInclusive(home, currentPosition, maxDistanceKm) ==
    IF home = NoPlace
    THEN FALSE
    ELSE haversineKm(currentPosition, home) >= maxDistanceKm

\* isPlayerFarFromHome after its read of the home (home: what the read gave).
isPlayerFarFromHome(home, currentPosition, maxDistanceKm) ==
    IF home = NoPlace
    THEN FALSE
    ELSE haversineKm(currentPosition, home) > maxDistanceKm

\* The record of a call of isPlayerFarFromHome whose read had outcome o.
Checked(o, currentPosition, maxDistanceKm) ==
    [called |-> TRUE, stored |-> dbHomeBase, current |-> currentPosition,
     maxDistanceKm |-> maxDistanceKm, readOk |-> (o = "ok"),
     result |-> isPlayerFarFromHome(getPlayerHomeBase(o), currentPosition, maxDistanceKm)]

\* The part of initializeGame that concerns the home, once the player is
\* there: setPosition(currentPosition); the home is read and, when there is
\* one, setHomeBase(it) and setIsAwayFromHome(isPlayerFarFromHome(..., 5)).
LoadHomeBase ==
    /\ playerState # NoPlayer
    /\ position = NoPlace
    /\ \E currentPosition \in Places, o \in Outcomes, check \in Outcomes :
          /\ position' = currentPosition
          /\ IF getPlayerHomeBase(o) # NoPlace
             THEN /\ homeBase' = getPlayerHomeBase(o)
                  /\ lastCheck' = Checked(check, currentPosition, AwayThresholdKm)
                  /\ isAwayFromHome' = lastCheck'.result
             ELSE UNCHANGED <<homeBase, isAwayFromHome, lastCheck>>
    /\ UNCHANGED <<gameVars, clockVars, historyVars, gridVars, dbHomeBase, homeOps, homeBudget,
                   lastHome>>

\* A refresh or home command starts in the first free slot, once the game is
\* loaded.
HomeCanStart(s) ==
    /\ homeOps[s].kind = "idle"
    /\ \A other \in Slots : homeOps[other].kind = "idle" => s <= other
    /\ homeBudget > 0
    /\ playerState # NoPlayer
    /\ position # NoPlace

\* The player is away by the flag and by the stored home.
IsAway == isAwayFromHome /\ isPlayerFarFromHome(dbHomeBase, position, AwayThresholdKm)

\* refreshPosition() and the callback of the position interval, as far as the
\* coordinate and the flag go: the call, with the homeBase of its render.
TrackStart(s) ==
    /\ HomeCanStart(s)
    /\ homeOps' = [homeOps EXCEPT ![s] =
          [HomeIdle EXCEPT !.kind = "track", !.pc = "locate",
                           !.home = homeBase]]
    /\ homeBudget' = homeBudget - 1
    /\ UNCHANGED <<gameVars, clockVars, historyVars, gridVars, position, homeBase,
                   isAwayFromHome, dbHomeBase, lastCheck, lastHome>>

\* getCurrentPosition resolves: setPosition(newPosition); or it rejects and
\* the call ends.
TrackLocate(s) ==
    /\ homeOps[s].kind = "track" /\ homeOps[s].pc = "locate"
    /\ \/ \E newPosition \in Places :
            /\ position' = newPosition
            /\ homeOps' = [homeOps EXCEPT ![s].pc = "save", ![s].arg = newPosition]
       \/ /\ homeOps' = [homeOps EXCEPT ![s] = HomeIdle]
          /\ UNCHANGED position
    /\ UNCHANGED <<gameVars, clockVars, historyVars, gridVars, homeBase, isAwayFromHome,
                   dbHomeBase, homeBudget, lastCheck, lastHome>>

\* savePlayerState(updatedState) settles: it throws and the call ends; else,
\* under if (homeBase) of the closure, isPlayerFarFromHome is awaited.
TrackSave(s) ==
    /\ homeOps[s].kind = "track" /\ homeOps[s].pc = "save"
    /\ \E o \in Outcomes :
          homeOps' = [homeOps EXCEPT ![s] =
              IF o = "ok" /\ homeOps[s].home # NoPlace
              THEN [homeOps[s] EXCEPT !.pc = "check"]
              ELSE HomeIdle]
    /\ UNCHANGED <<gameVars, clockVars, historyVars, gridVars, position, homeBase,
                   isAwayFromHome, dbHomeBase, homeBudget, lastCheck, lastHome>>

\* isPlayerFarFromHome(playerState.id, newPosition, 5) settles:
\* setIsAwayFromHome(isAway).
TrackCheck(s) ==
    /\ homeOps[s].kind = "track" /\ homeOps[s].pc = "check"
    /\ \E o \in Outcomes :
          /\ lastCheck' = Checked(o, homeOps[s].arg, AwayThresholdKm)
          /\ isAwayFromHome' = lastCheck'.result
    /\ homeOps' = [homeOps EXCEPT ![s] = HomeIdle]
    /\ UNCHANGED <<gameVars, clockVars, historyVars, gridVars, position, homeBase, dbHomeBase,
                   homeBudget, lastHome>>

\* setHomeBase(position): the page passes the position of its render;
\* basePosition is the argument and savePlayerHomeBase is awaited.
SetHomeStart(s) ==
    /\ HomeCanStart(s)
    /\ homeOps' = [homeOps EXCEPT ![s] =
          [HomeIdle EXCEPT !.kind = "setHome", !.pc = "save",
                           !.arg = position, !.away = IsAway]]
    /\ homeBudget' = homeBudget - 1
    /\ UNCHANGED <<gameVars, clockVars, historyVars, gridVars, position, homeBase,
                   isAwayFromHome, dbHomeBase, lastCheck, lastHome>>

\* setHomeBase(): no argument; basePosition is awaited from getCurrentPosition.
SetHomeStartLocating(s) ==
    /\ HomeCanStart(s)
    /\ homeOps' = [homeOps EXCEPT ![s] =
          [HomeIdle EXCEPT !.kind = "setHome", !.pc = "locate"]]
    /\ homeBudget' = homeBudget - 1
    /\ UNCHANGED <<gameVars, clockVars, historyVars, gridVars, position, homeBase,
                   isAwayFromHome, dbHomeBase, lastCheck, lastHome>>

\* getCurrentPosition resolves, or rejects: the error is logged.
SetHomeLocate(s) ==
    /\ homeOps[s].kind = "setHome" /\ homeOps[s].pc = "locate"
    /\ \/ /\ \E basePosition \in Places :
               homeOps' = [homeOps EXCEPT ![s].pc = "save", ![s].arg = basePosition]
          /\ UNCHANGED lastHome
       \/ /\ homeOps' = [homeOps EXCEPT ![s] = HomeIdle]
          /\ lastHome' = [kind |-> "setHome", ok |-> FALSE]
    /\ UNCHANGED <<gameVars, clockVars, historyVars, gridVars, position, homeBase,
                   isAwayFromHome, dbHomeBase, homeBudget, lastCheck>>

\* savePlayerHomeBase settles: the record is put under the key of the player,
\* setHomeBase(basePosition) and setIsAwayFromHome(false); or it throws: the
\* error is logged and nothing is set.
SetHomeSave(s) ==
    /\ homeOps[s].kind = "setHome" /\ homeOps[s].pc = "save"
    /\ \E o \in Outcomes :
          IF o = "ok"
          THEN /\ dbHomeBase' = homeOps[s].arg
               /\ homeBase' = homeOps[s].arg
               /\ isAwayFromHome' = FALSE
               /\ lastHome' = [kind |-> "setHome", ok |-> TRUE]
          ELSE /\ lastHome' = [kind |-> "setHome", ok |-> FALSE]
               /\ UNCHANGED <<dbHomeBase, homeBase, isAwayFromHome>>
    /\ homeOps' = [homeOps EXCEPT ![s] = HomeIdle]
    /\ UNCHANGED <<gameVars, clockVars, historyVars, gridVars, position, homeBudget, lastCheck>>

\* resetToHomeBase() with a homeBase in its render (without one it does
\* nothing): setPosition(homeBase), and updateCurrentHexagon(homeBase) sets
\* the cell of the home and is awaited.
ResetStart(s) ==
    /\ HomeCanStart(s)
    /\ homeBase # NoPlace
    /\ homeOps' = [homeOps EXCEPT ![s] =
          [HomeIdle EXCEPT !.kind = "reset", !.pc = "hexagon",
                           !.home = homeBase, !.arg = homeBase,
                           !.away = IsAway]]
    /\ homeBudget' = homeBudget - 1
    /\ position' = homeBase
    /\ currentHexagon' \in Cells
    /\ UNCHANGED <<now, dbPlayer, dbHexagons, dbZones, playerState, resourceZones,
                   ops, budget, horizon, storeFails, everyDraw, last, clockVars,
                   historyVars, gridVars, homeBase, isAwayFromHome, dbHomeBase, lastCheck,
                   lastHome>>

\* updateCurrentHexagon settles (it catches its own errors):
\* setIsAwayFromHome(false).
ResetDone(s) ==
    /\ homeOps[s].kind = "reset" /\ homeOps[s].pc = "hexagon"
    /\ isAwayFromHome' = FALSE
    /\ lastHome' = [kind |-> "reset", ok |-> TRUE]
    /\ homeOps' = [homeOps EXCEPT ![s] = HomeIdle]
    /\ UNCHANGED <<gameVars, clockVars, historyVars, gridVars, position, homeBase, dbHomeBase,
                   homeBudget, lastCheck>>

\* ------------------------------------------------------------------- the grid
\* The resolutions getH3Index accepts: 0 to 15.
MaxResolution == 15

\* Variant: an infinite coordinate is taken for 0.
latLngToCellClamping(lat, lng, resolution) ==
    IF resolution < 0 \/ resolution > MaxResolution
    THEN [threw |-> TRUE, cell |-> NoGridCell]
    ELSE IF lat.kind = "NaN" \/ lng.kind = "NaN"
    THEN [threw |-> TRUE, cell |-> NoGridCell]
    ELSE [threw |-> FALSE,
          cell |-> [resolution |-> resolution, q |-> lat.value \div 2,
                    r |-> lng.value \div 2]]

\* latLngToCell of h3-js 4.2.1: it throws for a resolution outside 0..15 and
\* for a coordinate that is not finite; else it gives the cell that holds the
\* coordinate (in the model a cell spans two units of each coordinate).
latLngToCell(lat, lng, resolution) ==
    IF resolution < 0 \/ resolution > MaxResolution
    THEN [threw |-> TRUE, cell |-> NoGridCell]
    ELSE IF lat.kind # "finite" \/ lng.kind # "finite"
    THEN [threw |-> TRUE, cell |-> NoGridCell]
    ELSE [threw |-> FALSE,
          cell |-> [resolution |-> resolution, q |-> lat.value \div 2,
                    r |-> lng.value \div 2]]

\* getH3Index: the cell, or the error 'Failed to get H3 index' with which the
\* catch replaces every error thrown in the try.
getH3Index(lat, lng, resolution) ==
    LET Failed == [ok |-> FALSE, cell |-> NoGridCell]
    IN  IF lat.kind = "NaN" \/ lng.kind = "NaN"
        THEN Failed
        ELSE IF resolution < 0 \/ resolution > 15
        THEN Failed
        ELSE LET h3Index == latLngToCell(lat, lng, resolution)
             IN  IF h3Index.threw
                 THEN Failed
                 ELSE IF h3Index.cell = NoGridCell
                 THEN Failed
                 ELSE [ok |-> TRUE, cell |-> h3Index.cell]

\* The steps between two cells of one resolution (axial coordinates).
gridDistance(a, b) ==
    LET Abs(x) == IF x < 0 THEN -x ELSE x
        dq == a.q - b.q
        dr == a.r - b.r
    IN  (Abs(dq) + Abs(dr) + Abs(dq + dr)) \div 2

\* The list of a set of cells. The order of the list gridDisk returns is not
\* specified: ring by ring from the origin, or another order.
RECURSIVE CellList(_, _, _)
CellList(cells, origin, order) ==
    IF cells = {}
    THEN <<>>
    ELSE LET Before(a, b) ==
                 IF order = "rings"
                 THEN \/ gridDistance(a, origin) < gridDistance(b, origin)
                      \/ /\ gridDistance(a, origin) = gridDistance(b, origin)
                         /\ (a.q < b.q \/ (a.q = b.q /\ a.r <= b.r))
                 ELSE a.r > b.r \/ (a.r = b.r /\ a.q >= b.q)
             first == CHOOSE c \in cells : \A other \in cells : Before(c, other)
         IN  <<first>> \o CellList(cells \ {first}, origin, order)

\* gridDisk(origin, k): the cells within k steps of the origin, the origin
\* included.
gridDisk(origin, k, order) ==
    LET around == {[resolution |-> origin.resolution, q |-> origin.q + dq,
                    r |-> origin.r + dr] : dq \in (-k)..k, dr \in (-k)..k}
    IN  CellList({c \in around : gridDistance(c, origin) <= k}, origin, order)

\* Variant: the list is not limited.
getHexagonsInPlayerRadiusUnlimited(lat, lng, config, order) ==
    LET centerH3 == getH3Index(lat, lng, config.resolution)
    IN  IF ~centerH3.ok
        THEN <<>>
        ELSE gridDisk(centerH3.cell, config.maxRadius, order)

\* getHexagonsInPlayerRadius(playerPosition, config): the disk around the cell
\* of the player (getCurrentHexagon is getH3Index of the coordinates of the
\* position), cut to its first maxHexagons cells; [] when anything throws.
getHexagonsInPlayerRadius(lat, lng, config, order) ==
    LET centerH3 == getH3Index(lat, lng, config.resolution)
    IN  IF ~centerH3.ok
        THEN <<>>
        ELSE LET hexagons == gridDisk(centerH3.cell, config.maxRadius, order)
             IN  IF Len(hexagons) > config.maxHexagons
                 THEN SubSeq(hexagons, 1, config.maxHexagons)
                 ELSE hexagons

\* The numbers a caller may hand over as a coordinate: finite (value), NaN or
\* an infinity.
Coordinates ==
    {[kind |-> "finite", value |-> v] : v \in 0..MaxCoordinate} \cup
    {[kind |-> k, value |-> 0] : k \in {"NaN", "+Infinity", "-Infinity"}}

\* A call of getH3Index(lat, lng, resolution).
GetH3Index ==
    /\ gridResult = NoGridResult
    /\ LET index == getH3Index(gridInput.lat, gridInput.lng, gridInput.resolution)
       IN  gridResult' = [fn |-> "getH3Index", ok |-> index.ok, cell |-> index.cell,
                          cells |-> <<>>]
    /\ UNCHANGED <<gameVars, clockVars, historyVars, homeVars, gridInput>>

\* A call of getHexagonsInPlayerRadius(playerPosition, config); it never
\* throws.
GetHexagonsInPlayerRadius ==
    /\ gridResult = NoGridResult
    /\ gridResult' =
          [fn |-> "getHexagonsInPlayerRadius", ok |-> TRUE, cell |-> NoGridCell,
           cells |-> getHexagonsInPlayerRadius(gridInput.lat, gridInput.lng,
                         gridInput, gridInput.order)]
    /\ UNCHANGED <<gameVars, clockVars, historyVars, homeVars, gridInput>>

\* ---------------------------------------------------- the economy functions
\* Variant: every zone is put on a cell drawn from the whole list.
generateResourceZonesListRedrawing(hexagons, count, t) ==
    LET n == Len(hexagons)
        k == Min(count, n)
        drawn(type) == {[resourceType |-> type,
                         amount |-> getResourceBaseAmount(type)
                                       + (r * getResourceBaseAmount(type)) \div 1000,
                         regenerationRate |-> getResourceRegenRate(type),
                         lastRegeneration |-> t] : r \in Randoms}
    IN  {[i \in 1..k |-> [id |-> hexagons[pick[i]],
                          resourceType |-> draw[i].resourceType,
                          amount |-> draw[i].amount,
                          regenerationRate |-> draw[i].regenerationRate,
                          lastRegeneration |-> draw[i].lastRegeneration]] :
            pick \in [1..k -> 1..n],
            draw \in [1..k -> UNION {drawn(type) : type \in ResourceTypes}]}

\* generateResourceZones(hexagons, count) called at time t, as the lists it
\* can return: the list is shuffled (the sort gives some permutation) and cut
\* to its first min(count, length) cells; each gets a type drawn from the three,
\* amount = base + floor(Math.random() * base), the rate of the type and the
\* time of the call.
generateResourceZonesList(hexagons, count, t) ==
    LET n == Len(hexagons)
        k == Min(count, n)
        shuffles == {p \in [1..n -> 1..n] : \A i, j \in 1..n : p[i] = p[j] => i = j}
        drawn(type) == {[resourceType |-> type,
                         amount |-> getResourceBaseAmount(type)
                                       + (r * getResourceBaseAmount(type)) \div 1000,
                         regenerationRate |-> getResourceRegenRate(type),
                         lastRegeneration |-> t] : r \in Randoms}
    IN  {[i \in 1..k |-> [id |-> hexagons[shuffled[i]],
                          resourceType |-> draw[i].resourceType,
                          amount |-> draw[i].amount,
                          regenerationRate |-> draw[i].regenerationRate,
                          lastRegeneration |-> draw[i].lastRegeneration]] :
            shuffled \in shuffles,
            draw \in [1..k -> UNION {drawn(type) : type \in ResourceTypes}]}

\* A call of generateResourceZones(hexagons, count).
GenerateResourceZones ==
    /\ gridResult = NoGridResult
    /\ gridInput.fn = "generateResourceZones"
    /\ \E zones \in generateResourceZonesList(gridInput.hexagons, gridInput.count, now) :
          gridResult' = [fn |-> "generateResourceZones", ok |-> TRUE,
                         cell |-> NoGridCell, cells |-> zones]
    /\ UNCHANGED <<gameVars, clockVars, historyVars, homeVars, gridInput>>

\* No field (undefined).
Absent == -1

\* A call of hasEnoughResources(playerResources, requiredResources): a field
\* the cost lacks is taken for 0 (requiredResources.wood || 0).
HasEnoughResources ==
    /\ gridResult = NoGridResult
    /\ gridInput.fn = "hasEnoughResources"
    /\ gridResult' =
          [fn |-> "hasEnoughResources",
           ok |-> hasEnoughResources(gridInput.playerResources,
                      [f \in ResourceTypes |->
                          IF gridInput.requiredResources[f] = Absent
                          THEN 0
                          ELSE gridInput.requiredResources[f]]),
           cell |-> NoGridCell, cells |-> <<>>]
    /\ UNCHANGED <<gameVars, clockVars, historyVars, homeVars, gridInput>>

\* ------------------------------------------------------------ specification
Next ==
    \/ InitializeGame
    \/ AdvanceTime
    \/ \E s \in Slots : Conquer(s)
    \/ \E s \in Slots : Collect(s)
    \/ \E s \in Slots : Establish(s)
    \/ \E s \in Slots : Upgrade(s)
    \/ \E s \in Slots : Refresh(s)
    \/ \E s \in Slots : Tick(s)
    \/ \E s \in Slots : Reseed(s)

Spec == Init /\ [][Next]_vars

\* The conquest commands alone, over a store that may fail.
InitConquest ==
    (FreshStore \/ ReturningStore) /\ Mounted(MaxConquestStarted, MaxTime, TRUE, FALSE)

NextConquest ==
    \/ InitializeGame
    \/ AdvanceTime
    \/ \E s \in Slots : Conquer(s)
    \/ \E s \in Slots : Establish(s)

SpecConquest == InitConquest /\ [][NextConquest]_vars

\* The zone economy alone (collection and the regeneration pass of a player
\* without a base), over a store that may fail.
InitZones ==
    (FreshStore \/ DepletedStore) /\ Mounted(MaxZoneStarted, MaxZoneTime, TRUE, FALSE)

NextZones ==
    \/ InitializeGame
    \/ AdvanceTime
    \/ \E s \in Slots : Collect(s)
    \/ \E s \in Slots : TickStart(s)
    \/ \E s \in Slots : TickRegen(s)

SpecZones == InitZones /\ [][NextZones]_vars

\* The collection alone, over every amount of the zone and every draw of the
\* collection rate.
InitDraw == AnyAmountStore /\ Mounted(MaxDrawStarted, 0, FALSE, TRUE)

NextDraw ==
    \/ InitializeGame
    \/ \E s \in Slots : Collect(s)

SpecDraw == InitDraw /\ [][NextDraw]_vars

\* The base commands and the maintenance tick, over the stores of a player who
\* has conquered cells.
InitBase ==
    /\ ReturningStore \/ WealthyStore \/ TwoCellStore \/ StarvedStore
    /\ Mounted(MaxBaseStarted, MaxBaseTime, FALSE, FALSE)

NextBase ==
    \/ InitializeGame
    \/ AdvanceTime
    \/ \E s \in Slots : Establish(s)
    \/ \E s \in Slots : Upgrade(s)
    \/ \E s \in Slots : Tick(s)

SpecBase == InitBase /\ [][NextBase]_vars

\* The regeneration pass alone, over a store with two zones that may fail.
InitPass == TwoZoneStore /\ Mounted(MaxPassStarted, MaxPassTime, TRUE, FALSE)

NextPass ==
    \/ InitializeGame
    \/ AdvanceTime
    \/ \E s \in Slots : TickStart(s)
    \/ \E s \in Slots : TickRegen(s)

SpecPass == InitPass /\ [][NextPass]_vars

\* The four commands, over a store that may fail.
InitCommands ==
    (FreshStore \/ ReturningStore) /\ Mounted(MaxCommandStarted, 0, TRUE, FALSE)

NextCommands ==
    \/ InitializeGame
    \/ \E s \in Slots : Conquer(s)
    \/ \E s \in Slots : Collect(s)
    \/ \E s \in Slots : Establish(s)
    \/ \E s \in Slots : Upgrade(s)

SpecCommands == InitCommands /\ [][NextCommands]_vars

\* The two intervals alone: the timers of the browser fire when they are due.
InitClock == (FreshStore \/ ReturningStore) /\ Mounted(0, 0, FALSE, FALSE)

NextClock ==
    \/ InitializeGame
    \/ RegisterIntervals
    \/ Elapse
    \/ SourceChanges
    \/ PositionIntervalFires
    \/ MaintenanceIntervalFires

SpecClock ==
    /\ InitClock
    /\ [][NextClock]_vars
    /\ WF_vars(InitializeGame)
    /\ WF_vars(RegisterIntervals)
    /\ WF_vars(Elapse)
    /\ WF_vars(PositionIntervalFires)
    /\ WF_vars(MaintenanceIntervalFires)

\* The watch and the position history: the history starts empty, with one
\* entry or with about KeptPositions entries, up to MaxStored, all older than
\* the positions the watch will report, and store operations may fail.
InitPositions ==
    /\ FreshStore
    /\ MountedHook(0, 0, TRUE, FALSE)
    /\ NoIntervals
    /\ \E n \in {0, 1} \cup (KeptPositions - 2)..MaxStored : playerPositions = 1..n
    /\ watchTime = MaxStored + 1
    /\ reports = <<>>
    /\ lastCleanup = NoCleanup
    /\ dbHomeBase = NoPlace
    /\ NoHome(0)
    /\ NoGrid

NextPositions ==
    \/ WatchReports
    \/ WatchTimePasses
    \/ \E i \in 1..MaxReports : SavePlayerPositionSettles(i)
    \/ CleanupOldPositions

SpecPositions == InitPositions /\ [][NextPositions]_vars

\* The home tracker: a returning player, with the home an earlier session
\* left in the store, or none; store operations may fail.
InitHome ==
    /\ ReturningStore
    /\ MountedHook(0, 0, TRUE, FALSE)
    /\ NoIntervals
    /\ NoHistory
    /\ dbHomeBase \in Places \cup {NoPlace}
    /\ NoHome(MaxHomeStarted)
    /\ NoGrid

NextHome ==
    \/ InitializeGame
    \/ LoadHomeBase
    \/ \E s \in Slots : TrackStart(s) \/ TrackLocate(s) \/ TrackSave(s) \/ TrackCheck(s)
    \/ \E s \in Slots : SetHomeStart(s) \/ SetHomeStartLocating(s)
    \/ \E s \in Slots : SetHomeLocate(s) \/ SetHomeSave(s)
    \/ \E s \in Slots : ResetStart(s) \/ ResetDone(s)

SpecHome == InitHome /\ [][NextHome]_vars

\* The grid functions, called with any coordinates, resolution and limits.
InitGrid ==
    /\ FreshStore
    /\ MountedHook(0, 0, FALSE, FALSE)
    /\ NoIntervals
    /\ NoHistory
    /\ dbHomeBase = NoPlace
    /\ NoHome(0)
    /\ gridInput \in [lat : Coordinates, lng : Coordinates,
                      resolution : (-1)..(MaxResolution + 1),
                      maxRadius : 0..MaxRadius, maxHexagons : 0..MaxHexagons,
                      order : {"rings", "other"}]
    /\ gridResult = NoGridResult

NextGrid ==
    \/ GetH3Index
    \/ GetHexagonsInPlayerRadius

SpecGrid == InitGrid /\ [][NextGrid]_vars

\* ------------------------------------------------------------------ the stop
\* The identifiers navigator.geolocation.watchPosition hands out.
WatchIds == {1, 2}

\* clearWatch(watchId): the Position Source drops the watch of that
\* identifier; an identifier it does not know is ignored.
clearWatch(id) == watches \ {id}

\* initializeGame of the hook that watches the position is called and awaits
\* the permission, the store and the first position.
InitializeGameAwaits ==
    /\ mounted
    /\ ~starting
    /\ starting' = TRUE
    /\ UNCHANGED <<gameVars, maintenanceInterval, positionUpdateInterval, sourceActive,
                   ticksRun, mounted, watchId, watches, historyVars, homeVars, gridVars>>

\* Its awaits are over.  They threw: the error is set and nothing is started.
\* They did not: a watch referenced by watchId.current is cleared, and
\* watchId.current = watchPosition(...) registers a new one.
InitializeGameWatches ==
    /\ starting
    /\ starting' = FALSE
    /\ \/ UNCHANGED <<watchId, watches>>
       \/ \E id \in WatchIds :
             /\ id # watchId
             /\ watches' = (IF watchId # NoWatch THEN clearWatch(watchId) ELSE watches)
                               \cup {id}
             /\ watchId' = id
    /\ UNCHANGED <<gameVars, maintenanceInterval, positionUpdateInterval, sourceActive,
                   ticksRun, mounted, historyVars, homeVars, gridVars>>

\* The Position Source calls the success callback of a registered watch.
WatchFires ==
    /\ watches # {}
    /\ WatchReports

\* The stop: the cleanups of the effects run (at unmount, or once more):
\* clearWatch(watchId.current) when the ref holds an identifier, and
\* clearInterval of both intervals.
Cleanup ==
    /\ watches' = IF watchId # NoWatch THEN clearWatch(watchId) ELSE watches
    /\ maintenanceInterval' = NoInterval
    /\ positionUpdateInterval' = NoInterval
    /\ mounted' = FALSE
    /\ UNCHANGED <<gameVars, sourceActive, ticksRun, watchId, starting,
                   historyVars, homeVars, gridVars>>

\* The intervals, the watch and the stop.
NextStop ==
    \/ InitializeGame
    \/ RegisterIntervals
    \/ Elapse
    \/ SourceChanges
    \/ PositionIntervalFires
    \/ MaintenanceIntervalFires
    \/ InitializeGameAwaits
    \/ InitializeGameWatches
    \/ WatchFires
    \/ Cleanup

SpecStop == InitClock /\ [][NextStop]_vars

\* getHexagon(h3Index) as the store answers it (one read-only transaction over
\* the hexagons and the resourceZones stores): the stored record, with the
\* zone of the cell attached when there is one; the unconquered default when
\* only a zone is stored on the cell; null when neither is stored.
getHexagonData(h3Index) ==
    LET hexagon == dbHexagons[h3Index]
        resourceZone == dbZones[h3Index]
    IN  IF hexagon.stored
        THEN [null |-> FALSE, synthetic |-> FALSE, id |-> h3Index,
              conquered |-> hexagon.conquered, record |-> hexagon,
              resourceZone |-> resourceZone,
              conquestCost |-> conquestCost, maintenanceCost |-> maintenanceCost]
        ELSE IF resourceZone # NoZone
        THEN [null |-> FALSE, synthetic |-> TRUE, id |-> h3Index,
              conquered |-> FALSE, record |-> NoHex,
              resourceZone |-> resourceZone,
              conquestCost |-> Res(10, 5, 8), maintenanceCost |-> Res(2, 1, 2)]
        ELSE [null |-> TRUE, synthetic |-> FALSE, id |-> h3Index,
              conquered |-> FALSE, record |-> NoHex,
              resourceZone |-> NoZone,
              conquestCost |-> NoRes, maintenanceCost |-> NoRes]

\* A call of getHexagon on any cell; the transaction is read-only.
GetHexagon ==
    /\ \E h3Index \in Cells :
           gridResult' = [fn |-> "getHexagon", ok |-> ~getHexagonData(h3Index).null,
                          cell |-> NoGridCell, cells |-> <<getHexagonData(h3Index)>>]
    /\ UNCHANGED <<gameVars, clockVars, historyVars, homeVars, gridInput>>

\* The queries of the store: getHexagon on any cell, between the steps of the
\* conquests of a new or a returning player.
InitQueries ==
    (FreshStore \/ ReturningStore \/ TwoCellStore) /\ Mounted(MaxStarted, 0, FALSE, FALSE)

NextQueries ==
    \/ InitializeGame
    \/ \E s \in Slots : Conquer(s)
    \/ GetHexagon

SpecQueries == InitQueries /\ [][NextQueries]_vars

\* The economy functions: generateResourceZones, called with any list of
\* distinct cells and any count (every value of Math.random() is followed
\* when at most one zone is asked for), and hasEnoughResources, called with
\* any inventory and any cost, whose fields may be absent.
InitFunctions ==
    /\ FreshStore
    /\ NoIntervals
    /\ NoHistory
    /\ dbHomeBase = NoPlace
    /\ NoHome(0)
    /\ gridResult = NoGridResult
    /\ \/ /\ gridInput \in
                 [fn : {"generateResourceZones"},
                  hexagons : {h \in UNION {[1..n -> Cells \cup {"out"}] : n \in 0..3} :
                                 \A i, j \in 1..Len(h) : h[i] = h[j] => i = j},
                  count : 0..MaxZonesAsked]
          /\ MountedHook(0, 0, FALSE, gridInput.count <= 1)
       \/ /\ gridInput \in
                 [fn : {"hasEnoughResources"},
                  playerResources : [ResourceTypes -> 0..MaxResourceAmount],
                  requiredResources :
                      [ResourceTypes -> {Absent} \cup 0..MaxResourceAmount]]
          /\ MountedHook(0, 0, FALSE, FALSE)

NextFunctions ==
    \/ GenerateResourceZones
    \/ HasEnoughResources

SpecFunctions == InitFunctions /\ [][NextFunctions]_vars

\* ================================================================ properties
\* C1: in every reachable state each of the player's wood, iron and stone
\* counters, in memory (playerState.resources) and persisted (the player
\* record), is >= 0.
C1_CountersNeverNegative ==
    \A r \in {playerState.resources, dbPlayer.resources} :
        r.wood >= 0 /\ r.iron >= 0 /\ r.stone >= 0

\* A conquest in flight has debited the last iron: the counter is exactly 0 in
\* memory and in the store.
C1_Witness ==
    \E s \in Slots :
        /\ ops[s].kind = "conquer" /\ ops[s].pc = "hex"
        /\ playerState.resources.iron = 0
        /\ dbPlayer.resources.iron = 0

\* C2: when a conquest completes successfully, the cell is recorded as
\* conquered and the inventory, in memory and persisted, is the inventory the
\* command was called with minus exactly the conquest cost.
C2_ConquestDebitsItsCost ==
    [][\A s \in Slots :
          (ConquerSave(s) /\ last'.kind = "conquer" /\ last'.ok) =>
              /\ dbHexagons'[ops[s].hex].conquered
              /\ playerState'.resources =
                     [wood |-> ops[s].ps.resources.wood - 10,
                      iron |-> ops[s].ps.resources.iron - 5,
                      stone |-> ops[s].ps.resources.stone - 8]
              /\ dbPlayer'.resources = playerState'.resources]_vars

\* C3: two conquests of the same cell never both debit the inventory: a
\* conquest debits only a cell that is not conquered and that no other conquest
\* in flight has already debited for.
C3_NoSecondDebit ==
    [][\A s \in Slots :
          (ConquerDebit(s) /\ ops'[s].pc = "hex") =>
              /\ ~dbHexagons[ops[s].hex].conquered
              /\ \A o \in Slots \ {s} :
                     ~(/\ ops[o].kind = "conquer"
                       /\ ops[o].hex = ops[s].hex
                       /\ ops[o].pc \in {"hex", "score", "save"})]_vars

\* C4: a conquest called by a player whose inventory does not cover
\* {wood: 10, iron: 5, stone: 8}, on a cell that is not conquered, returns false
\* when the cell's record has been read, and leaves the inventory, the score
\* (in memory and persisted) and the territory records unchanged.
C4_UnaffordableConquestChangesNothing ==
    [][\A s \in Slots :
          (/\ ops[s].kind = "conquer" /\ ops[s].pc = "read"
           /\ ops'[s] # ops[s]
           /\ ~dbHexagons[ops[s].hex].conquered
           /\ ~(/\ ops[s].ps.resources.wood >= 10
                /\ ops[s].ps.resources.iron >= 5
                /\ ops[s].ps.resources.stone >= 8)) =>
              /\ ops'[s] = Idle
              /\ last'.kind = "conquer" /\ ~last'.ok
              /\ playerState' = playerState
              /\ dbPlayer' = dbPlayer
              /\ dbHexagons' = dbHexagons]_vars

\* A conquest of a cell that is not conquered has just returned false for an
\* inventory that does not cover the cost.
C4_Witness ==
    /\ last.kind = "conquer" /\ ~last.ok /\ last.why = "InsufficientResources"
    /\ last.hex # NoCell
    /\ ~dbHexagons[last.hex].conquered

\* C5: once the stored record of a cell has conquered = true, every step keeps
\* the record, keeps it conquered and keeps its conqueredBy.
C5_ConqueredForGood ==
    [][\A c \in Cells :
          dbHexagons[c].conquered =>
              /\ dbHexagons'[c].stored
              /\ dbHexagons'[c].conquered
              /\ dbHexagons'[c].conqueredBy = dbHexagons[c].conqueredBy]_vars

\* Zones were seeded again (the store of zones cleared and refilled) while a
\* cell was conquered.
C5_Witness ==
    /\ last.kind = "reseed" /\ last.ok
    /\ \E c \in Cells : dbHexagons[c].conquered /\ dbHexagons[c].conqueredBy = PlayerId

\* C6: the conquered record of a cell is written at most once: a conquest
\* writes it only over a cell that is not conquered yet.
C6_ConqueredWrittenOnce ==
    [][\A s \in Slots :
          (ConquerHex(s) /\ ops'[s].pc = "score") =>
              ~dbHexagons[ops[s].hex].conquered]_vars

\* C7: every zone, in the store and in memory, has
\* 0 <= amount <= 2 x baseAmount(resourceType).
C7_ZoneAmountInRange ==
    \A c \in Cells : \A z \in {dbZones[c], resourceZones[c]} :
        z # NoZone =>
            /\ 0 <= z.amount
            /\ z.amount <= 2 * getResourceBaseAmount(z.resourceType)

\* C8: a regeneration pass leaves a zone whose lastRegeneration is less than
\* one hour before now as it is, in the list the pass builds and in memory, and
\* no step of the pass writes that zone to the store.
C8_NotDueUntouched ==
    [][\A s \in Slots :
          /\ TickStart(s) =>
                \A c \in Cells :
                    (/\ resourceZones[c] # NoZone
                     /\ now - resourceZones[c].lastRegeneration < TicksPerHour) =>
                        /\ c \notin ops'[s].pending
                        /\ ops'[s].kind = "tick" => ops'[s].zs[c] = resourceZones[c]
                        /\ resourceZones'[c] = resourceZones[c]
                        /\ dbZones'[c] = dbZones[c]
          /\ TickRegen(s) =>
                \A c \in Cells \ ops[s].pending :
                    /\ dbZones'[c] = dbZones[c]
                    /\ ops'[s].kind = "tick" => ops'[s].zs[c] = ops[s].zs[c]
                    /\ resourceZones'[c] \in {resourceZones[c], ops[s].zs[c]}]_vars

\* A pass has completed half an hour after the zone of the list was created,
\* and the zone is as it was created.
C8_Witness ==
    /\ last.kind = "tick" /\ last.ok
    /\ now = 1
    /\ \E c \in Cells :
          /\ resourceZones[c] # NoZone
          /\ resourceZones[c].lastRegeneration = 0
          /\ dbZones[c] = resourceZones[c]

\* C9: a regeneration pass rebuilds a zone whose lastRegeneration is at least
\* one hour before now with amount' = min(amount + floor(regenerationRate x
\* hoursElapsed), 2 x baseAmount(resourceType)) and lastRegeneration' = now, its
\* cell, resourceType and regenerationRate unchanged; that zone is what the pass
\* writes to the store and, when the pass completes, sets in memory.
C9_DueRegenerated ==
    [][LET expected(zone) ==
               LET sum == zone.amount
                            + (zone.regenerationRate * (now - zone.lastRegeneration))
                                  \div TicksPerHour
                   cap == 2 * (CASE zone.resourceType = "wood" -> 50
                                 [] zone.resourceType = "iron" -> 30
                                 [] zone.resourceType = "stone" -> 40)
               IN  [resourceType |-> zone.resourceType,
                    amount |-> IF sum < cap THEN sum ELSE cap,
                    regenerationRate |-> zone.regenerationRate,
                    lastRegeneration |-> now]
       IN
       \A s \in Slots :
          /\ TickStart(s) =>
                \A c \in Cells :
                    (/\ resourceZones[c] # NoZone
                     /\ now - resourceZones[c].lastRegeneration >= TicksPerHour) =>
                        /\ c \in ops'[s].pending
                        /\ ops'[s].zs[c] = expected(resourceZones[c])
          /\ TickRegen(s) =>
                /\ \/ dbZones' = dbZones
                   \/ \E c \in ops[s].pending :
                          dbZones' = [dbZones EXCEPT ![c] = ops[s].zs[c]]
                /\ (ops'[s] = Idle /\ last'.ok) => resourceZones' = ops[s].zs]_vars

\* A pass has completed an hour and a half after the zone was created with
\* amount 30 and rate 7: the zone holds 30 + floor(7 x 1.5) = 40, in memory and
\* in the store, stamped now.
C9_Witness ==
    /\ last.kind = "tick" /\ last.ok
    /\ now = 3
    /\ \E c \in Cells :
          /\ resourceZones[c] # NoZone
          /\ resourceZones[c].amount = 40
          /\ resourceZones[c].lastRegeneration = now
          /\ dbZones[c] = resourceZones[c]

\* C10: a successful collection moves resources: the write of the player
\* record adds exactly the collected quantity to the counter of the zone's type
\* and nothing to the two others; the write of the zone takes exactly that
\* quantity from the stored zone; and the inventory in memory gains exactly
\* that quantity on that one counter.
C10_CollectMovesResources ==
    [][\A s \in Slots :
          LET type == ops[s].zone.resourceType
              collected == ops[s].res[type] - ops[s].ps.resources[type]
          IN  /\ (CollectCredit(s) /\ ops'[s].pc = "zone") =>
                    dbPlayer'.resources =
                        [dbPlayer.resources EXCEPT ![type] = @ + collected]
              /\ (CollectZone(s) /\ last'.kind = "collect" /\ last'.ok) =>
                    /\ dbZones'[ops[s].hex].amount
                           = dbZones[ops[s].hex].amount - collected
                    /\ playerState'.resources =
                           [playerState.resources EXCEPT ![type] = @ + collected]]_vars

\* C11: a collection on a cell without a zone or with a zone of amount <= 0
\* returns false when the zone has been read; a collection goes on to its
\* writes only with a collected quantity >= 1, so a computed quantity <= 0
\* returns false as well; and the step that reads and decides writes nothing:
\* the zone and the inventory, stored and in memory, are unchanged.
C11_NothingToCollect ==
    [][\A s \in Slots :
          (ops[s].kind = "collect" /\ ops[s].pc = "read" /\ ops'[s] # ops[s]) =>
              /\ dbZones' = dbZones /\ resourceZones' = resourceZones
              /\ dbPlayer' = dbPlayer /\ playerState' = playerState
              /\ (dbZones[ops[s].hex] = NoZone \/ dbZones[ops[s].hex].amount <= 0) =>
                     (ops'[s] = Idle /\ last'.kind = "collect" /\ ~last'.ok)
              /\ ops'[s] # Idle =>
                     /\ dbZones[ops[s].hex].amount - ops'[s].zone.amount >= 1
                     /\ ops'[s].res =
                            [ops[s].ps.resources EXCEPT
                                ![dbZones[ops[s].hex].resourceType] =
                                    @ + dbZones[ops[s].hex].amount - ops'[s].zone.amount]]_vars

\* A collection on the zone of 9 has drawn the least fraction, computed
\* floor(0.9) = 0 and returned false; the zone still holds 9 and the iron 46.
C11_Witness ==
    /\ last.kind = "collect" /\ ~last.ok /\ last.why = "Nothing"
    /\ dbZones[last.hex].amount = 9 /\ resourceZones[last.hex].amount = 9
    /\ dbPlayer.resources.iron = 46 /\ playerState.resources.iron = 46

\* C12: for a zone of amount a > 0 and every draw of the collection rate, the
\* quantity c a collection takes is an integer with
\* floor(a / 10) <= c <= floor(3a / 10); a collection that takes nothing (c = 0,
\* returned false) is within these bounds too.
C12_CollectedWithinBounds ==
    [][\A s \in Slots :
          (/\ ops[s].kind = "collect" /\ ops[s].pc = "read" /\ ops'[s] # ops[s]
           /\ dbZones[ops[s].hex] # NoZone
           /\ dbZones[ops[s].hex].amount > 0) =>
              LET a == dbZones[ops[s].hex].amount
                  c == IF ops'[s] = Idle THEN 0 ELSE a - ops'[s].zone.amount
              IN  /\ c \in Int
                  /\ a \div 10 <= c
                  /\ c <= (3 * a) \div 10]_vars

\* A collection in flight has taken 23 = floor(3 x 79 / 10) from a zone of 79,
\* the greatest quantity the bounds allow.
C12_Witness ==
    \E s \in Slots :
        /\ ops[s].kind = "collect" /\ ops[s].pc = "credit"
        /\ dbZones[ops[s].hex].amount = 79
        /\ ops[s].zone.amount = 79 - 23

\* C13: a successful collection at time t stamps the zone, stored and in
\* memory, with lastRegeneration = t; and while the last command to return is
\* a successful collection on a zone stamped less than one hour ago, no
\* regeneration pass writes that zone or raises its amount in memory.
C13_CollectionRestartsTheHour ==
    [][\A s \in Slots :
          /\ (CollectZone(s) /\ last'.kind = "collect" /\ last'.ok) =>
                /\ dbZones'[ops[s].hex].lastRegeneration = now
                /\ resourceZones[ops[s].hex] # NoZone =>
                       resourceZones'[ops[s].hex].lastRegeneration = now
          /\ TickRegen(s) =>
                \A c \in Cells :
                    (/\ last.kind = "collect" /\ last.ok /\ last.hex = c
                     /\ dbZones[c] # NoZone
                     /\ now - dbZones[c].lastRegeneration < TicksPerHour) =>
                        /\ dbZones'[c] = dbZones[c]
                        /\ resourceZones'[c].amount <= resourceZones[c].amount]_vars

\* C14: an establishBase called for a cell that is not conquered, or by a
\* player who has a base, or whose inventory does not cover
\* {wood: 30, iron: 20, stone: 25}, returns false when the cell's record has
\* been read and leaves the player (inventory, baseHexagon), in memory and
\* persisted, and every stored record unchanged.
C14_RefusedBaseChangesNothing ==
    [][\A s \in Slots :
          (/\ ops[s].kind = "establish" /\ ops[s].pc = "read"
           /\ ops'[s] # ops[s]
           /\ \/ ~dbHexagons[ops[s].hex].conquered
              \/ ops[s].ps.baseHexagon # NoCell
              \/ ~(/\ ops[s].ps.resources.wood >= 30
                   /\ ops[s].ps.resources.iron >= 20
                   /\ ops[s].ps.resources.stone >= 25)) =>
              /\ ops'[s] = Idle
              /\ last'.kind = "establish" /\ ~last'.ok
              /\ playerState' = playerState
              /\ dbPlayer' = dbPlayer
              /\ dbHexagons' = dbHexagons
              /\ dbZones' = dbZones]_vars

\* An establishBase on a conquered cell, by a player without a base, has just
\* returned false for an inventory that does not cover the cost.
C14_Witness ==
    /\ last.kind = "establish" /\ ~last.ok /\ last.why = "InsufficientResources"
    /\ dbHexagons[last.hex].conquered
    /\ playerState.baseHexagon = NoCell /\ dbPlayer.baseHexagon = NoCell

\* C15: an establishBase that returns true has debited {wood: 30, iron: 20,
\* stone: 25} from the inventory it was called with, has recorded the cell as
\* the player's baseHexagon in memory and in the store, and has left in the
\* hexagons store a record of the cell carrying a level-1 base.
C15_BaseIsStored ==
    [][\A s \in Slots :
          (/\ ops[s].kind = "establish" /\ ops[s].pc = "base"
           /\ ops'[s] = Idle
           /\ last'.kind = "establish" /\ last'.ok) =>
              /\ playerState'.resources.wood = ops[s].ps.resources.wood - 30
              /\ playerState'.resources.iron = ops[s].ps.resources.iron - 20
              /\ playerState'.resources.stone = ops[s].ps.resources.stone - 25
              /\ playerState'.baseHexagon = ops[s].hex
              /\ dbPlayer'.baseHexagon = ops[s].hex
              /\ dbHexagons'[ops[s].hex].baseLevel = 1]_vars

\* C16: once the player's baseHexagon is a cell it is that same cell in every
\* later state, in memory and in the store, whatever commands are in flight.
C16_BaseNeverRelocated ==
    [][/\ playerState.baseHexagon # NoCell =>
              playerState'.baseHexagon = playerState.baseHexagon
       /\ dbPlayer.baseHexagon # NoCell =>
              dbPlayer'.baseHexagon = dbPlayer.baseHexagon]_vars

\* C17: an upgradeBase called for a cell that is not the player's baseHexagon
\* returns false at once; one whose cell carries a stored base of level 2 or
\* more, or whose inventory does not cover {wood: 50, iron: 30, stone: 40},
\* returns false when the cell's record has been read; in each case the player
\* (inventory, baseHexagon), in memory and persisted, and the stored cells are
\* unchanged.
C17_RefusedUpgradeChangesNothing ==
    [][\A s \in Slots :
          /\ (UpgradeStart(s) /\ ops'[s] # ops[s]) =>
                 ops'[s].hex = playerState.baseHexagon
          /\ (UpgradeStart(s) /\ ops' = ops) =>
                 /\ last'.kind = "upgrade" /\ ~last'.ok
                 /\ last'.hex # playerState.baseHexagon
                 /\ playerState' = playerState
                 /\ dbPlayer' = dbPlayer
                 /\ dbHexagons' = dbHexagons
          /\ (/\ ops[s].kind = "upgrade" /\ ops[s].pc = "read"
              /\ ops'[s] # ops[s]
              /\ \/ dbHexagons[ops[s].hex].baseLevel >= 2
                 \/ ~(/\ ops[s].ps.resources.wood >= 50
                      /\ ops[s].ps.resources.iron >= 30
                      /\ ops[s].ps.resources.stone >= 40)) =>
                 /\ ops'[s] = Idle
                 /\ last'.kind = "upgrade" /\ ~last'.ok
                 /\ playerState' = playerState
                 /\ dbPlayer' = dbPlayer
                 /\ dbHexagons' = dbHexagons]_vars

\* An upgradeBase of the player's own base cell has just returned false, the
\* inventory {20, 5, 15} not covering the cost, and the player is as it was.
C17_Witness ==
    /\ last.kind = "upgrade" /\ ~last.ok
    /\ last.hex = playerState.baseHexagon
    /\ playerState.resources = Res(20, 5, 15)
    /\ dbPlayer = EarlierPlayer
    /\ \A s \in Slots : ops[s] = Idle

\* C18: an upgradeBase of the cell on which establishBase has set the player's
\* base, called with an inventory covering {wood: 50, iron: 30, stone: 40}, goes
\* on to debit exactly that cost once the cell's record has been read, and when
\* the debit is written it returns true and the stored base is at level 2.
C18_UpgradeOfOwnBaseSucceeds ==
    [][\A s \in Slots :
          /\ (/\ ops[s].kind = "upgrade" /\ ops[s].pc = "read"
              /\ ops'[s] # ops[s]
              /\ ops[s].ps.baseHexagon = ops[s].hex
              /\ dbPlayer.baseHexagon = ops[s].hex
              /\ ops[s].ps.resources.wood >= 50
              /\ ops[s].ps.resources.iron >= 30
              /\ ops[s].ps.resources.stone >= 40) =>
                 /\ ops'[s].pc = "debit"
                 /\ ops'[s].res.wood = ops[s].ps.resources.wood - 50
                 /\ ops'[s].res.iron = ops[s].ps.resources.iron - 30
                 /\ ops'[s].res.stone = ops[s].ps.resources.stone - 40
          /\ (/\ ops[s].kind = "upgrade" /\ ops[s].pc = "debit"
              /\ ops'[s] # ops[s]) =>
                 /\ last'.kind = "upgrade" /\ last'.ok
                 /\ dbPlayer'.resources = ops[s].res
                 /\ dbHexagons'[ops[s].hex].baseLevel = 2]_vars

C23_FailuresIsolatedPerZone ==
    [][\A s \in Slots :
          (/\ ops[s].kind = "tick" /\ ops[s].pc = "regen"
           /\ ops'[s] = Idle) =>
              \A c \in Cells :
                  (Due(resourceZones[c], now) /\ dbZones'[c] = ops[s].zs[c]) =>
                      resourceZones'[c] = ops[s].zs[c]]_vars

\* C24: conquerCurrentHexagon, collectResources, establishBase and upgradeBase
\* always end with an explicit result (true or false) for the call they were:
\* a call goes on past a store write only when the write has been applied, and
\* ends with true only on the step that applies its last write; a call whose
\* write failed ends with false.
C24_CommandsResolveToAResult ==
    [][\A s \in Slots :
          /\ (ops[s].kind \in {"conquer", "collect", "establish", "upgrade"}
              /\ ops'[s] = Idle) =>
                 /\ last'.kind = ops[s].kind
                 /\ last'.hex = ops[s].hex
                 /\ last'.ok \in BOOLEAN
                 /\ last'.ok =>
                        CASE ops[s].kind = "conquer" ->
                                 /\ ops[s].pc = "save"
                                 /\ dbPlayer'.score = ops[s].ps.score + 10
                          [] ops[s].kind = "collect" ->
                                 /\ ops[s].pc = "zone"
                                 /\ dbZones'[ops[s].hex] = ops[s].zone
                          [] ops[s].kind = "establish" ->
                                 /\ ops[s].pc = "base"
                                 /\ dbPlayer'.baseHexagon = ops[s].hex
                          [] ops[s].kind = "upgrade" ->
                                 /\ ops[s].pc = "debit"
                                 /\ dbPlayer'.resources = ops[s].res
          /\ (ops[s].kind = "conquer" /\ ops[s].pc = "debit" /\ ops'[s].pc = "hex") =>
                 dbPlayer'.resources = ops[s].res
          /\ (ops[s].kind = "conquer" /\ ops[s].pc = "hex" /\ ops'[s].pc = "score") =>
                 dbHexagons'[ops[s].hex].conquered
          /\ (ops[s].kind = "collect" /\ ops[s].pc = "credit" /\ ops'[s].pc = "zone") =>
                 dbPlayer'.resources = ops[s].res
          /\ (ops[s].kind = "establish" /\ ops[s].pc = "debit" /\ ops'[s].pc = "base") =>
                 dbPlayer'.resources = ops[s].res]_vars

\* A conquest has just returned false: its debit is in the store, the write of
\* the cell failed and the cell is not conquered.
C24_Witness ==
    /\ last.kind = "conquer" /\ ~last.ok /\ last.why = "StoreFailure"
    /\ dbPlayer.resources = subtractResources(NewPlayerResources, conquestCost)
    /\ ~dbHexagons[last.hex].conquered
    /\ \A s \in Slots : ops[s] = Idle

\* C21: with the player initialized and the Position Source answering at every
\* position interval, the maintenance callback is eventually run.
C21_TickKeepsFiring ==
    []sourceActive => <>(ticksRun > 0)

\* C25: every position the watch reported is handed to onSuccess exactly once,
\* as it was reported, when its savePlayerPosition has settled, whether the
\* save succeeded or failed; and it is not handed over before.
C25_EveryPositionDeliveredOnce ==
    \A i \in 1..Len(reports) :
        IF reports[i].saved = "pending"
        THEN reports[i].delivered = <<>>
        ELSE reports[i].delivered = <<reports[i].position>>

\* C25 witness: a position whose save failed has been delivered, next to one
\* whose save succeeded.
C25_Witness ==
    /\ \E i \in 1..Len(reports) :
          reports[i].saved = "failed" /\ Len(reports[i].delivered) = 1
    /\ \E i \in 1..Len(reports) :
          reports[i].saved = "saved" /\ Len(reports[i].delivered) = 1

\* C26: when cleanupOldPositions has completed, the history holds at most 100
\* entries, all of them entries it held before, none older than an entry that
\* was deleted; a history of 100 entries or fewer is left as it was.
C26_CleanupKeepsNewestHundred ==
    (lastCleanup.called /\ lastCleanup.completed) =>
        /\ Cardinality(lastCleanup.after) <= 100
        /\ lastCleanup.after \subseteq lastCleanup.before
        /\ Cardinality(lastCleanup.after)
               = IF Cardinality(lastCleanup.before) > 100 THEN 100
                 ELSE Cardinality(lastCleanup.before)
        /\ LET deletedKeys == lastCleanup.before \ lastCleanup.after
           IN \A deleted \in deletedKeys : \A kept \in lastCleanup.after :
                  kept > deleted

\* C26 witness: a cleanup has completed on a history of more than 100 entries,
\* the newest of which the watch saved.
C26_Witness ==
    /\ lastCleanup.called
    /\ lastCleanup.completed
    /\ Cardinality(lastCleanup.before) > 101
    /\ \E i \in 1..Len(reports) :
          /\ reports[i].saved = "saved"
          /\ reports[i].position.timestamp \in lastCleanup.after

\* C27: a call of isPlayerFarFromHome whose read of the home succeeds returns
\* true exactly when a home is stored and the distance from the current
\* position to it is strictly greater than the threshold; with no home stored
\* it returns false; it always returns a boolean.
C27_FarIffHomeAndBeyondThreshold ==
    lastCheck.called =>
        /\ lastCheck.result \in BOOLEAN
        /\ lastCheck.stored = NoPlace => lastCheck.result = FALSE
        /\ lastCheck.readOk =>
              (lastCheck.result <=>
                  /\ lastCheck.stored # NoPlace
                  /\ (IF lastCheck.current > lastCheck.stored
                      THEN lastCheck.current - lastCheck.stored
                      ELSE lastCheck.stored - lastCheck.current)
                         > lastCheck.maxDistanceKm)

\* C27 witness: with a home stored, a call at 10 km from it has returned true
\* and the flag is set.
C27_Witness ==
    /\ lastCheck.called
    /\ lastCheck.readOk
    /\ lastCheck.stored # NoPlace
    /\ lastCheck.result
    /\ isAwayFromHome

\* C28: when setHomeBase(position) or resetToHomeBase, called for a player
\* who is away (flag true, more than 5 km from the stored home), completes
\* without a store failure, the flag is false and the current position is not
\* more than 5 km from the stored home; and a setHomeBase that completes
\* without a store failure leaves its position as the stored home.
C28_HomeCommandsEndAway ==
    [][\A s \in Slots :
          (/\ homeOps[s].kind \in {"setHome", "reset"}
           /\ homeOps'[s].kind = "idle"
           /\ lastHome'.ok)
          => /\ homeOps[s].away =>
                   /\ isAwayFromHome' = FALSE
                   /\ ~(/\ dbHomeBase' # NoPlace
                        /\ (IF position' > dbHomeBase'
                            THEN position' - dbHomeBase'
                            ELSE dbHomeBase' - position') > 5)
             /\ homeOps[s].kind = "setHome" => dbHomeBase' = homeOps[s].arg]_vars

C30_RadiusListBounded ==
    gridResult.fn = "getHexagonsInPlayerRadius" =>
        LET cells == gridResult.cells
            returned == {cells[i] : i \in 1..Len(cells)}
            valid == /\ gridInput.lat.kind = "finite"
                     /\ gridInput.lng.kind = "finite"
                     /\ gridInput.resolution \in 0..15
            center == [resolution |-> gridInput.resolution,
                       q |-> gridInput.lat.value \div 2,
                       r |-> gridInput.lng.value \div 2]
            k == gridInput.maxRadius
            Steps(c) ==
                LET Abs(x) == IF x < 0 THEN -x ELSE x
                IN  (Abs(c.q - center.q) + Abs(c.r - center.r)
                       + Abs(c.q - center.q + c.r - center.r)) \div 2
            diskSize == 3 * k * (k + 1) + 1
        IN  /\ Len(cells) <= gridInput.maxHexagons
            /\ Cardinality(returned) = Len(cells)
            /\ ~valid => cells = <<>>
            /\ valid =>
                  /\ \A c \in returned :
                        c.resolution = gridInput.resolution /\ Steps(c) <= k
                  /\ diskSize <= gridInput.maxHexagons =>
                        /\ Len(cells) = diskSize
                        /\ center \in returned
                  /\ diskSize > gridInput.maxHexagons =>
                        Len(cells) = gridInput.maxHexagons

\* C30 witness: a disk of seven cells has been cut to three.
C30_Witness ==
    /\ gridResult.fn = "getHexagonsInPlayerRadius"
    /\ gridInput.maxRadius = 1
    /\ gridInput.maxHexagons = 3
    /\ Len(gridResult.cells) = 3

\* C31: generateResourceZones returns min(count, number of candidates) zones,
\* on cells of the candidates, no two on the same cell, each of type wood,
\* iron or stone, with base <= amount < 2 * base for the bases 50, 30 and 40
\* and the regeneration rates 10, 5 and 8.
C31_ZonesGeneratedAsAsked ==
    gridResult.fn = "generateResourceZones" =>
        LET zones == gridResult.cells
            asked == gridInput.count
            candidates == {gridInput.hexagons[i] : i \in 1..Len(gridInput.hexagons)}
            base(type) == IF type = "wood" THEN 50 ELSE IF type = "iron" THEN 30 ELSE 40
            rate(type) == IF type = "wood" THEN 10 ELSE IF type = "iron" THEN 5 ELSE 8
        IN  /\ Len(zones) = IF asked < Cardinality(candidates) THEN asked
                            ELSE Cardinality(candidates)
            /\ \A i, j \in 1..Len(zones) : zones[i].id = zones[j].id => i = j
            /\ \A i \in 1..Len(zones) :
                  /\ zones[i].id \in candidates
                  /\ zones[i].resourceType \in {"wood", "iron", "stone"}
                  /\ base(zones[i].resourceType) <= zones[i].amount
                  /\ zones[i].amount < 2 * base(zones[i].resourceType)
                  /\ zones[i].regenerationRate = rate(zones[i].resourceType)

\* C31 witness: two zones were asked for among three candidates and two came,
\* one of them of iron with the amount 59.
C31_Witness ==
    /\ gridResult.fn = "generateResourceZones"
    /\ Len(gridInput.hexagons) = 3
    /\ gridInput.count = 2
    /\ Len(gridResult.cells) = 2
    /\ \E i \in 1..2 : /\ gridResult.cells[i].resourceType = "iron"
                       /\ gridResult.cells[i].amount = 59

\* C34: hasEnoughResources(I, C) is true exactly when each of the wood, the
\* iron and the stone of I is at least that of C, an absent field of C
\* counting as 0.
C34_CanAffordIffEveryFieldCovers ==
    gridResult.fn = "hasEnoughResources" =>
        (gridResult.ok <=>
            \A f \in {"wood", "iron", "stone"} :
                gridInput.playerResources[f] >=
                    (IF gridInput.requiredResources[f] = -1
                     THEN 0
                     ELSE gridInput.requiredResources[f]))

\* C34 witness: an inventory without iron affords a cost that has no iron
\* field and asks for wood.
C34_Witness ==
    /\ gridResult.fn = "hasEnoughResources"
    /\ gridResult.ok
    /\ gridInput.playerResources["iron"] = 0
    /\ gridInput.requiredResources["iron"] = -1
    /\ gridInput.requiredResources["wood"] > 0

\* C32: when initializeResourceZones completes successfully, the zone records
\* of the store are exactly the zones it generated (no zone from before the
\* reset is left) and the zone list in memory is that same set; and when its
\* clearResourceZones completes, the store holds no zone record.
C32_ResetLeavesOnlyNewZones ==
    [][\A s \in Slots :
          /\ (ops[s].kind = "reseed" /\ ops[s].pc = "clear" /\ ops'[s].pc = "save")
                 => dbZones' = NoZones
          /\ (ops[s].kind = "reseed" /\ ops[s].pc = "save" /\ ops'[s].kind = "idle"
                 /\ last'.ok)
                 => (dbZones' = ops[s].zs /\ resourceZones' = ops[s].zs)]_vars

\* C33: getHexagon returns the stored record of a cell that has one, returns
\* the unconquered default (conquered = false, conquestCost {10, 5, 8},
\* maintenanceCost {2, 1, 2}) for every cell that has none, and neither
\* creates nor changes a record of the store.
C33_QueryAnswersRecordOrDefault ==
    [][(gridResult' # gridResult /\ gridResult'.fn = "getHexagon") =>
          LET answer == gridResult'.cells[1]
          IN  /\ dbHexagons[answer.id].stored =>
                     (~answer.null /\ answer.record = dbHexagons[answer.id])
              /\ ~dbHexagons[answer.id].stored =>
                     /\ ~answer.null
                     /\ answer.conquered = FALSE
                     /\ answer.conquestCost = Res(10, 5, 8)
                     /\ answer.maintenanceCost = Res(2, 1, 2)
              /\ dbHexagons' = dbHexagons
              /\ dbZones' = dbZones]_vars

\* C35: once the stop has run (any number of times, with or without a watch
\* or an interval registered), there is no watch and no pending interval, and
\* no tick and no watch callback is started any more.
C35_StoppedStaysStopped ==
    [][~mounted' =>
          /\ watches' = {}
          /\ maintenanceInterval' = -1
          /\ positionUpdateInterval' = -1
          /\ ~mounted => (reports' = reports /\ ticksRun' = ticksRun)]_vars

\* C36: whenever conquerCurrentHexagon, collectResources, establishBase or
\* upgradeBase returns false, the persisted inventory, the persisted record
\* and zone of its cell and the persisted baseHexagon are what they were when
\* the command was called.
C36_FailedCommandChangesNothing ==
    [][\A s \in Slots :
          (/\ ops[s].kind \in {"conquer", "collect", "establish", "upgrade"}
           /\ ops'[s] = Idle
           /\ ~last'.ok) =>
              /\ dbPlayer'.resources = ops[s].db.player.resources
              /\ dbPlayer'.baseHexagon = ops[s].db.player.baseHexagon
              /\ dbHexagons' = ops[s].db.hexagons
              /\ dbZones' = ops[s].db.zones]_vars

\* C37: a position refresh changes only the position of the player record:
\* its setPlayerState leaves the resources and the baseHexagon in memory as
\* another operation has set them, and its savePlayerState leaves the
\* resources and the baseHexagon of the store as another operation has
\* written them.
C37_RefreshKeepsResourcesAndBase ==
    [][\A s \in Slots :
          /\ (ops[s].kind = "refresh" /\ ops[s].pc = "set" /\ ops'[s].pc = "save") =>
                 /\ playerState'.resources = playerState.resources
                 /\ playerState'.baseHexagon = playerState.baseHexagon
          /\ (ops[s].kind = "refresh" /\ ops[s].pc = "save" /\ ops'[s] = Idle
              /\ last'.ok) =>
                 /\ dbPlayer'.resources = dbPlayer.resources
                 /\ dbPlayer'.baseHexagon = dbPlayer.baseHexagon]_vars

\* C38: a regeneration pass does not undo a collection: when the last command
\* to return is a successful collection on a zone, the write of that zone by
\* a regeneration pass leaves the stored amount at most the stored amount it
\* found (the amount before, minus what was collected) plus the regeneration
\* the pass grants.
C38_RegenerationKeepsCollection ==
    [][\A s \in Slots : \A c \in Cells :
          (/\ ops[s].kind = "tick" /\ ops[s].pc = "regen"
           /\ c \in ops[s].pending /\ c \notin ops'[s].pending
           /\ dbZones'[c] = ops[s].zs[c]
           /\ last.kind = "collect" /\ last.ok /\ last.hex = c) =>
              dbZones'[c].amount <= dbZones[c].amount + ops[s].granted[c]]_vars

\* C39: whenever the player is loaded, no command, tick or refresh is in
\* flight and no store write has failed, the resources and the baseHexagon of
\* playerState are those of the stored player record and the zone list in
\* memory is the set of stored zones.
C39_MemoryMatchesStoreAtRest ==
    (/\ playerState # NoPlayer
     /\ \A s \in Slots : ops[s] = Idle
     /\ ~storeFails) =>
        /\ playerState.resources = dbPlayer.resources
        /\ playerState.baseHexagon = dbPlayer.baseHexagon
        /\ resourceZones = dbZones

\* C40: regeneration never decreases a zone: every zone a regeneration pass
\* writes, whichever way the zone was created, holds at least the amount of
\* the zone it was rebuilt from (the amount written less what the pass
\* granted).
C40_RegenerationNeverDecreases ==
    [][\A s \in Slots : \A c \in Cells :
          (/\ ops[s].kind = "tick" /\ ops[s].pc = "regen"
           /\ c \in ops[s].pending /\ c \notin ops'[s].pending
           /\ dbZones'[c] = ops[s].zs[c]) =>
              dbZones'[c].amount >= dbZones'[c].amount - ops[s].granted[c]]_vars
====
